---- MODULE Spec2Model ----
(***************************************************************************)
(* A model of vscode-nls-dev (src/src/lib.ts and its callers).             *)
(*                                                                         *)
(* Text is a sequence of one-character tokens; "CR" and "LF" stand for     *)
(* \r and \n.  A nullable field of the source is a pair of fields: the     *)
(* value and a flag saying that it is null.                                *)
(***************************************************************************)
EXTENDS Integers, Sequences, FiniteSets, TLC

\* ---- the text model (class TextModel) ----
VARIABLES contents, rawSourceMap, patches, lines, outcome, text, sourceMapOut, tpc

textVars == <<contents, rawSourceMap, patches, lines, outcome, text, sourceMapOut, tpc>>

\* ---- one file on its way through analyze, processFile and a caller of processFile ----
\* file: the parsed source, its relative path and its source map; passed: the
\* arguments the caller gave processFile; analysis: what analyze returned; result:
\* what processFile returned; out: what the caller did
VARIABLES file, passed, analysis, result, out, fpc

fileVars == <<file, passed, analysis, result, out, fpc>>

\* ---- one call of a function of the library: its arguments, what it gave back ----
VARIABLES input, output, lpc

callVars == <<input, output, lpc>>

\* ---- a MetaDataBundler (its content in insertion order), the files given to ----
\* ---- add so far, what bundle() returned                                     ----
VARIABLES bundler, adds, bundled, bpc

bundlerVars == <<bundler, adds, bundled, bpc>>

vars == <<textVars, fileVars, callVars, bundlerVars>>

\* ------------------------------------------------------------------------
\* Bounds of the model
\* ------------------------------------------------------------------------

\* longest input text of the round-trip specification
MaxLen == 4

\* largest number of patches handed to one apply
MaxPatches == 3

\* largest character offset of a patch position
MaxCol == 2

\* largest number of statements of a source file, after the import
MaxRows == 3

\* ------------------------------------------------------------------------
\* Helpers on sequences
\* ------------------------------------------------------------------------

Min(a, b) == IF a < b THEN a ELSE b

\* all sequences over S of length 0..n
SeqsUpTo(S, n) == UNION {[1..k -> S] : k \in 0..n}

RECURSIVE Flatten(_)
Flatten(ss) == IF ss = <<>> THEN <<>> ELSE Head(ss) \o Flatten(Tail(ss))

Reverse(s) == [i \in 1..Len(s) |-> s[Len(s) + 1 - i]]

\* String.prototype.substring(0, n): the first n characters, n clamped to the length
SubstringTo(s, n) == SubSeq(s, 1, Min(n, Len(s)))

\* String.prototype.substring(n): the characters from offset n on, n clamped to the length
SubstringFrom(s, n) == SubSeq(s, Min(n, Len(s)) + 1, Len(s))

\* ------------------------------------------------------------------------
\* TextModel.constructor
\* ------------------------------------------------------------------------

Chars == {"a", "CR", "LF"}

NewLine(content, ending) ==
    [content |-> content, contentNull |-> FALSE, ending |-> ending,
     mappings |-> <<>>, mappingsNull |-> TRUE]

\* the loop over regex.exec(contents) with /\r\n|\r|\n/g: i is the scan position,
\* index the start of the current line (both 1-based here)
RECURSIVE SplitLoop(_, _, _, _)
SplitLoop(str, i, index, acc) ==
    IF i > Len(str)
    THEN IF Len(str) > 0
         THEN Append(acc, NewLine(SubSeq(str, index, Len(str)), <<>>))
         ELSE acc
    ELSE IF str[i] = "CR" /\ i < Len(str) /\ str[i + 1] = "LF"
         THEN SplitLoop(str, i + 2, i + 2,
                        Append(acc, NewLine(SubSeq(str, index, i - 1), <<"CR", "LF">>)))
         ELSE IF str[i] = "CR" \/ str[i] = "LF"
              THEN SplitLoop(str, i + 1, i + 1,
                             Append(acc, NewLine(SubSeq(str, index, i - 1), <<str[i]>>)))
              ELSE SplitLoop(str, i + 1, index, acc)

SplitLines(str) == SplitLoop(str, 1, 1, <<>>)

\* a mapping of the input source map, as SourceMapConsumer.eachMapping hands it over,
\* with the annotations of interface MappingItem unset
NewMapping(generatedLine, generatedColumn) ==
    [generatedLine |-> generatedLine, generatedColumn |-> generatedColumn,
     source |-> "test.ts", name |-> "n", originalLine |-> generatedLine,
     originalColumn |-> 2 * generatedColumn,
     delete |-> FALSE, columnDelta |-> 0, lineDelta |-> 0]

\* eachMapping(..., GENERATED_ORDER): each mapping is pushed on the line it names
\* (generatedLine is one based); a mapping of a line that does not exist is dropped
RECURSIVE AttachMappings(_, _)
AttachMappings(ls, items) ==
    IF items = <<>> THEN ls
    ELSE LET m == Head(items)
             n == m.generatedLine
         IN IF n \in 1..Len(ls)
            THEN AttachMappings(
                   [ls EXCEPT ![n] = [@ EXCEPT !.mappings = Append(@, m),
                                                !.mappingsNull = FALSE]],
                   Tail(items))
            ELSE AttachMappings(ls, Tail(items))

NewTextModel(str, map) ==
    IF map.present THEN AttachMappings(SplitLines(str), map.items) ELSE SplitLines(str)

\* ------------------------------------------------------------------------
\* TextModel.toString
\* ------------------------------------------------------------------------

\* if (line.content): null and the empty string are both falsy
Truthy(line) == ~line.contentNull /\ line.content # <<>>

ToStringOf(ls) ==
    Flatten([i \in 1..Len(ls) |->
               IF Truthy(ls[i]) THEN ls[i].content \o ls[i].ending ELSE <<>>])

\* ------------------------------------------------------------------------
\* TextModel.apply
\* ------------------------------------------------------------------------

Pos(line, character) == [line |-> line, character |-> character]

NewPatch(start, end, content) == [span |-> [start |-> start, end |-> end], content |-> content]

\* the comparator of patches.sort: by start line, then by start character
StartsBefore(a, b) ==
    LET lca == a.span.start
        lcb == b.span.start
    IN IF lca.line # lcb.line THEN lca.line < lcb.line ELSE lca.character < lcb.character

\* Array.prototype.sort is stable: a patch goes behind those that do not start after it
RECURSIVE InsertSorted(_, _)
InsertSorted(sorted, p) ==
    IF sorted = <<>> THEN <<p>>
    ELSE IF StartsBefore(p, Head(sorted))
         THEN <<p>> \o sorted
         ELSE <<Head(sorted)>> \o InsertSorted(Tail(sorted), p)

RECURSIVE SortPatches(_)
SortPatches(ps) ==
    IF ps = <<>> THEN <<>>
    ELSE InsertSorted(SortPatches(SubSeq(ps, 1, Len(ps) - 1)), ps[Len(ps)])

\* the condition of the overlap loop for one pair of spans
SpansOverlap(previousSpan, nextSpan) ==
    \/ previousSpan.end.line > nextSpan.start.line
    \/ /\ previousSpan.end.line = nextSpan.start.line
       /\ previousSpan.end.character >= nextSpan.start.character

\* the overlap loop: previousSpan is patches[0].span in every iteration
Overlapping(sorted) ==
    /\ Len(sorted) > 1
    /\ \E i \in 2..Len(sorted) : SpansOverlap(sorted[1].span, sorted[i].span)

\* the check before "Patches are outside of the buffer content.": "throw", "ok", or
\* "TypeError" when lastLine is undefined (a model without lines) and is read
BoundsCheck(ls, sorted) ==
    LET lastPatch == sorted[Len(sorted)]
        lineCount == Len(ls)
    IN IF lastPatch.span.end.line > lineCount THEN "throw"
       ELSE IF lastPatch.span.end.line = lineCount
            THEN IF lineCount = 0 THEN "TypeError"
                 ELSE IF lastPatch.span.end.character > Len(ls[lineCount].content)
                      THEN "throw" ELSE "ok"
            ELSE "ok"

\* the while loop of the single-line case: mappings of the line, cursor index (zero
\* based, -1 when there is none)
RECURSIVE CursorWalk(_, _, _)
CursorWalk(mappings, index, span) ==
    IF index # -1 /\ mappings[index + 1].generatedColumn > span.start.character
    THEN CursorWalk(
           IF mappings[index + 1].generatedColumn < span.end.character
           THEN [mappings EXCEPT ![index + 1].delete = TRUE]
           ELSE mappings,
           index - 1, span)
    ELSE [mappings |-> mappings, index |-> index]

\* the mapping adjustment of a patch within one line; st is the state of the forEach
\* loop: lines, the mapping cursor, and what was thrown
AdoptSingleLine(st, patch) ==
    LET s == patch.span.start.line + 1
        startLine == st.lines[s]
        reset == st.cursorLine # patch.span.start.line
        index0 == IF reset
                  THEN (IF startLine.mappingsNull THEN -1 ELSE Len(startLine.mappings) - 1)
                  ELSE st.cursorIndex
        delta == Len(patch.content) - (patch.span.end.character - patch.span.start.character)
    IN IF startLine.mappingsNull
       THEN \* startLine.mappings!.length with mappings null
            [st EXCEPT !.cursorLine = patch.span.start.line, !.cursorIndex = index0,
                       !.thrown = "TypeError"]
       ELSE LET w == CursorWalk(startLine.mappings, index0, patch.span)
                ms == IF w.index + 1 < Len(w.mappings)
                      THEN [w.mappings EXCEPT ![w.index + 2].columnDelta = @ + delta]
                      ELSE w.mappings
            IN [st EXCEPT !.cursorLine = patch.span.start.line, !.cursorIndex = w.index,
                          !.lines[s].mappings = ms]

\* startLineMappings[i].delete = true, from the last mapping down, while the column is
\* greater than the start character
DeleteAfter(mappings, character) ==
    [i \in 1..Len(mappings) |->
       IF \A j \in i..Len(mappings) : mappings[j].generatedColumn > character
       THEN [mappings[i] EXCEPT !.delete = TRUE]
       ELSE mappings[i]]

\* the number of leading end-line mappings with a column before the end character
RECURSIVE LeadingBefore(_, _, _)
LeadingBefore(mappings, index, character) ==
    IF index < Len(mappings) /\ mappings[index + 1].generatedColumn < character
    THEN LeadingBefore(mappings, index + 1, character)
    ELSE index

\* the end line of a multi-line patch: the leading mappings are deleted, the first
\* other one gets the deltas
AdoptEndLine(mappings, patch) ==
    LET index == LeadingBefore(mappings, 0, patch.span.end.character)
        lineDelta == patch.span.start.line - patch.span.end.line
        deleted == [i \in 1..Len(mappings) |->
                      IF i <= index THEN [mappings[i] EXCEPT !.delete = TRUE] ELSE mappings[i]]
    IN IF index < Len(mappings)
       THEN [deleted EXCEPT ![index + 1].lineDelta = lineDelta,
                            ![index + 1].columnDelta =
                                (patch.span.start.character - patch.span.end.character)
                                + Len(patch.content)]
       ELSE deleted

\* the mapping adjustment of a patch over several lines
AdoptMultiLine(st, patch) ==
    LET s == patch.span.start.line + 1
        e == patch.span.end.line + 1
    IN [st EXCEPT !.lines =
          [i \in 1..Len(st.lines) |->
             LET line == st.lines[i]
             IN IF line.mappingsNull THEN line
                ELSE IF i = s
                     THEN [line EXCEPT !.mappings = DeleteAfter(@, patch.span.start.character)]
                     ELSE IF i > s /\ i < e
                          THEN [line EXCEPT !.mappings =
                                  [k \in 1..Len(@) |-> [@[k] EXCEPT !.delete = TRUE]]]
                          ELSE IF i = e
                               THEN [line EXCEPT !.mappings = AdoptEndLine(@, patch)]
                               ELSE line]]

\* the textual manipulation of one patch; the lines exist and have content
Splice(ls, patch) ==
    LET s == patch.span.start.line + 1
        e == patch.span.end.line + 1
        joined == SubstringTo(ls[s].content, patch.span.start.character)
                    \o patch.content
                    \o SubstringFrom(ls[e].content, patch.span.end.character)
    IN [i \in 1..Len(ls) |->
          IF i = s THEN [ls[i] EXCEPT !.content = joined]
          ELSE IF i > s /\ i <= e THEN [ls[i] EXCEPT !.content = <<>>, !.contentNull = TRUE]
          ELSE ls[i]]

\* one call of the forEach callback
ApplyOne(st, patch, hasMap) ==
    LET s == patch.span.start.line + 1
        e == patch.span.end.line + 1
    IN IF s > Len(st.lines) \/ st.lines[s].contentNull
          \/ e > Len(st.lines) \/ st.lines[e].contentNull
       THEN \* .content of undefined, or .substring of null
            [st EXCEPT !.thrown = "TypeError"]
       ELSE LET spliced == [st EXCEPT !.lines = Splice(st.lines, patch)]
            IN IF ~hasMap THEN spliced
               ELSE IF s = e THEN AdoptSingleLine(spliced, patch)
                    ELSE AdoptMultiLine(spliced, patch)

\* patches.reverse().forEach(...): rs is what is left of the reversed patches
RECURSIVE ApplyLoop(_, _, _)
ApplyLoop(st, rs, hasMap) ==
    IF rs = <<>> \/ st.thrown # "none" THEN st
    ELSE ApplyLoop(ApplyOne(st, Head(rs), hasMap), Tail(rs), hasMap)

\* apply(patches): the lines afterwards and what was thrown ("none", "Overlapping",
\* "Outside", "TypeError")
ApplyPatches(ls, ps, hasMap) ==
    LET start == [lines |-> ls, cursorLine |-> -1, cursorIndex |-> -1, thrown |-> "none"]
        sorted == SortPatches(ps)
    IN IF Len(ps) = 0 THEN start
       ELSE IF Overlapping(sorted) THEN [start EXCEPT !.thrown = "Overlapping"]
       ELSE IF BoundsCheck(ls, sorted) = "throw" THEN [start EXCEPT !.thrown = "Outside"]
       ELSE IF BoundsCheck(ls, sorted) = "TypeError" THEN [start EXCEPT !.thrown = "TypeError"]
       ELSE ApplyLoop(start, Reverse(sorted), hasMap)

\* ------------------------------------------------------------------------
\* TextModel.generateSourceMap
\* ------------------------------------------------------------------------

\* the two forEach loops: acc holds the running lineDelta, the columnDelta of the
\* current line and the mappings added so far; i, k are the line and mapping at hand
RECURSIVE GenerateLoop(_, _, _, _)
GenerateLoop(ls, i, k, acc) ==
    IF i > Len(ls) THEN acc.added
    ELSE IF ls[i].mappingsNull \/ k > Len(ls[i].mappings)
         THEN GenerateLoop(ls, i + 1, 1, [acc EXCEPT !.columnDelta = 0])
         ELSE LET mapping == ls[i].mappings[k]
                  lineDelta == mapping.lineDelta + acc.lineDelta
                  columnDelta == mapping.columnDelta + acc.columnDelta
                  added == IF mapping.delete THEN acc.added
                           ELSE Append(acc.added,
                                  [source |-> mapping.source,
                                   name |-> mapping.name,
                                   originalLine |-> mapping.originalLine,
                                   originalColumn |-> mapping.originalColumn,
                                   generatedLine |-> mapping.generatedLine + lineDelta,
                                   generatedColumn |-> mapping.generatedColumn + columnDelta])
              IN GenerateLoop(ls, i, k + 1,
                   [lineDelta |-> lineDelta, columnDelta |-> columnDelta, added |-> added])

\* the mappings that are not deleted, emitted where they were
GenerateSourceMapOf_Unshifted(ls) ==
    LET kept == Flatten([i \in 1..Len(ls) |->
                           IF ls[i].mappingsNull THEN <<>>
                           ELSE SelectSeq(ls[i].mappings, LAMBDA m : ~m.delete)])
    IN  [k \in 1..Len(kept) |->
           [source |-> kept[k].source, name |-> kept[k].name,
            originalLine |-> kept[k].originalLine, originalColumn |-> kept[k].originalColumn,
            generatedLine |-> kept[k].generatedLine,
            generatedColumn |-> kept[k].generatedColumn]]

\* generateSourceMap: the mappings given to addMapping, in their order
GenerateSourceMapOf(ls) ==
    GenerateLoop(ls, 1, 1, [lineDelta |-> 0, columnDelta |-> 0, added |-> <<>>])

\* ------------------------------------------------------------------------
\* The text model as a state machine: new TextModel, apply, toString,
\* generateSourceMap, in the order processFile calls them
\* ------------------------------------------------------------------------

NoMap == [present |-> FALSE, items |-> <<>>]

\* no function of the library is being called
CallIdle ==
    /\ input = <<>>
    /\ output = <<>>
    /\ lpc = "idle"

\* no bundler is in use
BundlerIdle ==
    /\ bundler = [content |-> <<>>]
    /\ adds = <<>>
    /\ bundled = <<>>
    /\ bpc = "idle"

\* no file is being processed
FileIdle ==
    /\ file = [contents |-> <<>>, relativePath |-> <<>>,
               sourceMap |-> [kind |-> "undefined", items |-> <<>>], nlsReferences |-> <<>>]
    /\ passed = <<>>
    /\ analysis = <<>>
    /\ result = <<>>
    /\ out = <<>>
    /\ fpc = "idle"

TextModel_new ==
    /\ tpc = "new"
    /\ lines' = NewTextModel(contents, rawSourceMap)
    /\ tpc' = "constructed"
    /\ UNCHANGED <<contents, rawSourceMap, patches, outcome, text, sourceMapOut>>

TextModel_apply ==
    /\ tpc = "constructed"
    /\ LET r == ApplyPatches(lines, patches, rawSourceMap.present)
       IN /\ lines' = r.lines
          /\ outcome' = r.thrown
          /\ tpc' = IF r.thrown = "none" THEN "applied" ELSE "thrown"
    /\ UNCHANGED <<contents, rawSourceMap, patches, text, sourceMapOut>>

TextModel_toString ==
    /\ tpc = "applied"
    /\ text' = ToStringOf(lines)
    /\ tpc' = "printed"
    /\ UNCHANGED <<contents, rawSourceMap, patches, lines, outcome, sourceMapOut>>

TextModel_generateSourceMap ==
    /\ tpc = "printed"
    /\ sourceMapOut' = IF rawSourceMap.present
                       THEN [defined |-> TRUE, mappings |-> GenerateSourceMapOf(lines)]
                       ELSE [defined |-> FALSE, mappings |-> <<>>]
    /\ tpc' = "done"
    /\ UNCHANGED <<contents, rawSourceMap, patches, lines, outcome, text>>

TextNext ==
    \/ TextModel_new
    \/ TextModel_apply
    \/ TextModel_toString
    \/ TextModel_generateSourceMap

TextStart ==
    /\ lines = <<>>
    /\ outcome = "none"
    /\ text = <<>>
    /\ sourceMapOut = [defined |-> FALSE, mappings |-> <<>>]
    /\ tpc = "new"

\* ---- any text, no patch: the round trip through the model ----

InitText ==
    /\ FileIdle
    /\ CallIdle
    /\ BundlerIdle
    /\ contents \in SeqsUpTo(Chars, MaxLen)
    /\ rawSourceMap \in {NoMap, [present |-> TRUE, items |-> <<NewMapping(1, 0)>>]}
    /\ patches = <<>>
    /\ TextStart

SpecText == InitText /\ [][TextNext /\ UNCHANGED <<fileVars, callVars, bundlerVars>>]_vars

\* ---- a few texts, patches at any position, also outside the text ----

\* "a" and "a\na": one and two lines
ApplyTexts == {<<"a">>, <<"a", "LF", "a">>}

\* the positions patches name: up to one line and one character beyond the largest text
PatchPositions == {Pos(l, c) : l \in 0..2, c \in 0..MaxCol}

NotAfter(p, q) == p.line < q.line \/ (p.line = q.line /\ p.character <= q.character)

\* the patches over a set of positions: a span starts at or before its end
PatchesOver(positions) ==
    {NewPatch(se[1], se[2], <<"x">>) :
       se \in {pq \in positions \X positions : NotAfter(pq[1], pq[2])}}

ApplyMaps == {NoMap, [present |-> TRUE, items |-> <<NewMapping(1, 0), NewMapping(2, 1)>>]}

InitApply ==
    /\ FileIdle
    /\ CallIdle
    /\ BundlerIdle
    /\ contents \in ApplyTexts
    /\ rawSourceMap \in ApplyMaps
    /\ patches \in SeqsUpTo(PatchesOver(PatchPositions), MaxPatches)
    /\ TextStart

SpecApply == InitApply /\ [][TextNext /\ UNCHANGED <<fileVars, callVars, bundlerVars>>]_vars

\* ---- a few texts, patches at any position inside the text ----

\* "aa" and "aa\naa"
InsideTexts == {<<"a", "a">>, <<"a", "a", "LF", "a", "a">>}

\* the positions of a text: each line, each character offset up to the end of its content
PositionsOf(str) ==
    {pos \in [line : 0..(Len(SplitLines(str)) - 1), character : 0..MaxCol] :
       pos.character <= Len(SplitLines(str)[pos.line + 1].content)}

\* input source maps: none, one without any mapping, one without a mapping for the
\* second line, one with mappings on both lines
InsideMaps ==
    {NoMap,
     [present |-> TRUE, items |-> <<>>],
     [present |-> TRUE, items |-> <<NewMapping(1, 0), NewMapping(1, 1)>>],
     [present |-> TRUE, items |-> <<NewMapping(1, 1), NewMapping(2, 0), NewMapping(2, 2)>>]}

InitInside ==
    /\ FileIdle
    /\ CallIdle
    /\ BundlerIdle
    /\ contents \in InsideTexts
    /\ rawSourceMap \in InsideMaps
    /\ patches \in SeqsUpTo(PatchesOver(PositionsOf(contents)), MaxPatches)
    /\ TextStart

SpecInside == InitInside /\ [][TextNext /\ UNCHANGED <<fileVars, callVars, bundlerVars>>]_vars

\* ------------------------------------------------------------------------
\* Properties of the text model
\* ------------------------------------------------------------------------

\* apply has run, to its end or to a throw
Applied == tpc \in {"applied", "thrown", "printed", "done"}

\* p ends at or after the start of q
EndsAtOrAfter(p, q) ==
    \/ p.span.end.line > q.span.start.line
    \/ p.span.end.line = q.span.start.line /\ p.span.end.character >= q.span.start.character

\* some two patches overlap: the earlier one, by sorted start, ends at or after the
\* start of the later one
SomeTwoOverlap(ps) ==
    LET sorted == SortPatches(ps)
    IN \E i, j \in 1..Len(sorted) : i < j /\ EndsAtOrAfter(sorted[i], sorted[j])

\* a position of the text as constructed: an existing line (zero based) and a
\* character offset up to the length of its content
InsideText(str, pos) ==
    /\ pos.line < Len(SplitLines(str))
    /\ pos.character <= Len(SplitLines(str)[pos.line + 1].content)

AllInside(str, ps) ==
    \A i \in 1..Len(ps) : InsideText(str, ps[i].span.start) /\ InsideText(str, ps[i].span.end)

\* C1: whenever some two patches of the set overlap, for any number of patches and in
\* any input order, apply raises the 'Overlapping text edits generated.' error
C1_OverlapAlwaysRaises ==
    (Applied /\ SomeTwoOverlap(patches)) => outcome = "Overlapping"

\* C1, the failing case: three patches inside the text of which the second and third
\* overlap, applied without any error
C1_Missed ==
    /\ tpc = "applied"
    /\ outcome = "none"
    /\ Len(patches) = 3
    /\ SomeTwoOverlap(patches)
    /\ AllInside(contents, patches)

\* C2: apply raises nothing for pairwise non-overlapping patches whose spans lie inside
\* the document, with or without an input source map
C2_NonOverlappingNeverRaises ==
    (Applied /\ patches # <<>> /\ ~SomeTwoOverlap(patches) /\ AllInside(contents, patches))
        => outcome = "none"

\* C2, the failing case: one patch inside a line that has no mapping, with a source map
C2_Raised ==
    /\ tpc = "thrown"
    /\ outcome = "TypeError"
    /\ Len(patches) = 1
    /\ rawSourceMap.present
    /\ AllInside(contents, patches)

\* C3: with no patch applied, toString returns exactly the input text
C3_RoundTrip ==
    (tpc \in {"printed", "done"} /\ patches = <<>>) => text = contents

\* C3, the failing case: a text with an empty line comes back shorter
C3_Lost ==
    /\ tpc = "printed"
    /\ patches = <<>>
    /\ Len(text) < Len(contents)

\* C8: whenever the last patch, by sorted start, ends outside the document (its end
\* line is no line of the text, or its end character is beyond the content of that
\* line), apply raises the 'Patches are outside of the buffer content.' error; patches
\* that overlap are left to the overlap error
C8_OutsideAlwaysRaises ==
    (/\ Applied
     /\ patches # <<>>
     /\ ~SomeTwoOverlap(patches)
     /\ ~InsideText(contents, SortPatches(patches)[Len(patches)].span.end))
        => outcome = "Outside"

\* C8, the failing case: a single patch ending beyond the end of its line, applied
\* without any error
C8_Missed ==
    /\ tpc = "applied"
    /\ outcome = "none"
    /\ Len(patches) = 1
    /\ InsideText(contents, patches[1].span.start)
    /\ ~InsideText(contents, patches[1].span.end)

\* ------------------------------------------------------------------------
\* analyze
\*
\* The parsed source is what analyze asks the TypeScript language service for:
\* the references of the vscode-nls binding (file.nlsReferences, in the order the
\* service reports them) with, for each, the call it is part of; for a load call
\* its arguments, its parent and, when it is bound to a variable, the references
\* of that variable; for a call its arguments with their kinds, texts and places.
\* ------------------------------------------------------------------------

Digits == <<"0", "1", "2", "3", "4", "5", "6", "7", "8", "9">>

\* Number.prototype.toString of a natural number: its decimal digits
RECURSIVE Decimal(_)
Decimal(n) == IF n < 10 THEN <<Digits[n + 1]>> ELSE Decimal(n \div 10) \o <<Digits[(n % 10) + 1]>>

\* text.substr(1, text.length - 2): the text of a literal without its quotes
Unquote(t) == SubSeq(t, 2, Len(t) - 1)

\* unescapeMap: the characters that may follow a backslash, and what the two become
UnescapeKeys == {"'", "\"", "\\", "n", "r", "t", "b", "f"}

\* a map that gives every character back as it is
UnescapeMap_Same(ch) == ch

UnescapeMap(ch) ==
    CASE ch = "n" -> "LF"
      [] ch = "r" -> "CR"
      [] ch = "t" -> "TAB"
      [] ch = "b" -> "BSP"
      [] ch = "f" -> "FF"
      [] OTHER -> ch

\* the loop of unescapeString from offset i (one based) on
RECURSIVE UnescapeLoop(_, _)
UnescapeLoop(str, i) ==
    IF i > Len(str) THEN <<>>
    ELSE IF str[i] = "\\" /\ i + 1 <= Len(str) /\ str[i + 1] \in UnescapeKeys
         THEN <<UnescapeMap(str[i + 1])>> \o UnescapeLoop(str, i + 2)
         ELSE <<str[i]>> \o UnescapeLoop(str, i + 1)

UnescapeString(str) == UnescapeLoop(str, 1)

\* relativeFilename.replace(/\\/g, '\\\\'): every backslash doubled
RECURSIVE DoubleBackslashes(_)
DoubleBackslashes(name) ==
    IF name = <<>> THEN <<>>
    ELSE (IF Head(name) = "\\" THEN <<"\\", "\\">> ELSE <<Head(name)>>)
         \o DoubleBackslashes(Tail(name))

\* the relative file name put into the require expression as it is
LoadPatchContent_Plain(relativeFilename) ==
    IF relativeFilename.defined /\ relativeFilename.name # <<>>
    THEN <<"require('path').join(__dirname, '">> \o relativeFilename.name \o <<"')">>
    ELSE <<"__filename">>

\* the content of the patch of a load call: a relative file name that is a
\* non-empty string is truthy
LoadPatchContent(relativeFilename) ==
    IF relativeFilename.defined /\ relativeFilename.name # <<>>
    THEN <<"require('path').join(__dirname, '">>
         \o DoubleBackslashes(relativeFilename.name) \o <<"')">>
    ELSE <<"__filename">>

\* the reduce over nlsReferences: a reference is part of a load call when it is
\* Identifier -> PropertyAccess -> CallExpression and the property is loadMessageBundle,
\* or config with the config call itself called
IsLoadCall(reference) ==
    /\ reference.node = "propertyCall"
    /\ \/ reference.name = "loadMessageBundle"
       \/ reference.name = "config" /\ reference.called

RECURSIVE LoadCallsLoop(_)
LoadCallsLoop(references) ==
    IF references = <<>> THEN <<>>
    ELSE (IF IsLoadCall(Head(references)) THEN <<Head(references).loadCall>> ELSE <<>>)
         \o LoadCallsLoop(Tail(references))

LoadCalls(f) == LoadCallsLoop(f.nlsReferences)

\* an entry of the errors list: the position, one based, and the message
ErrorAt(position, message, name) ==
    [line |-> position.line + 1, character |-> position.character + 1,
     message |-> message, name |-> name]

\* the forEach over the references of the variable a load call is bound to
RECURSIVE ReferencesLoop(_, _)
ReferencesLoop(references, memo) ==
    IF references = <<>> THEN memo
    ELSE LET reference == Head(references)
         IN ReferencesLoop(Tail(references),
              IF reference.isWriteAccess THEN memo
              ELSE IF reference.parentIsCall /\ Len(reference.call.arguments) >= 2
                   THEN [memo EXCEPT !.calls = Append(@, reference.call)]
                   ELSE [memo EXCEPT !.errors =
                           Append(@, ErrorAt(reference.pos, "unusual", reference.text))])

\* the reduce over loadCalls that collects the localize calls
RECURSIVE LocalizeCallsLoop(_, _)
LocalizeCallsLoop(loadCalls, memo) ==
    IF loadCalls = <<>> THEN memo
    ELSE LET loadCall == Head(loadCalls)
         IN LocalizeCallsLoop(Tail(loadCalls),
              IF loadCall.parent = "call"
              THEN [memo EXCEPT !.calls = Append(@, loadCall.call)]
              ELSE IF loadCall.parent = "variable"
                   THEN ReferencesLoop(loadCall.references, memo)
                   ELSE memo)

\* every load call taken for one without arguments
HasNoArguments_Any(loadCall) == TRUE

\* loadCall.arguments.length === 0
HasNoArguments(loadCall) == loadCall.arguments = 0

\* the reduce over loadCalls that patches the empty argument lists
RECURSIVE LoadPatchesLoop(_, _)
LoadPatchesLoop(loadCalls, relativeFilename) ==
    IF loadCalls = <<>> THEN <<>>
    ELSE (IF HasNoArguments(Head(loadCalls))
          THEN <<NewPatch(Head(loadCalls).argsPos, Head(loadCalls).argsEnd,
                          LoadPatchContent(relativeFilename))>>
          ELSE <<>>)
         \o LoadPatchesLoop(Tail(loadCalls), relativeFilename)

\* the loop over the properties of an object literal given as first argument
RECURSIVE PropertiesLoop(_, _)
PropertiesLoop(properties, acc) ==
    IF properties = <<>> THEN acc
    ELSE LET property == Head(properties)
             initializer == property.initializer
         IN PropertiesLoop(Tail(properties),
              IF ~property.isAssignment THEN acc
              ELSE IF property.name = "key"
                   THEN IF initializer.kind = "string"
                        THEN [acc EXCEPT !.keyNull = FALSE, !.key = Unquote(initializer.text)]
                        ELSE acc
                   ELSE IF property.name = "comment" /\ initializer.kind = "array"
                        THEN [acc EXCEPT !.comment =
                                @ \o [i \in 1..Len(SelectSeq(initializer.elements,
                                                       LAMBDA e : e.kind = "string")) |->
                                        Unquote(SelectSeq(initializer.elements,
                                                  LAMBDA e : e.kind = "string")[i].text)]]
                        ELSE acc)

\* key, comment of a first argument
KeyOf(firstArg) ==
    LET none == [keyNull |-> TRUE, key |-> <<>>, comment |-> <<>>]
    IN IF firstArg.kind = "string"
       THEN [none EXCEPT !.keyNull = FALSE, !.key = Unquote(firstArg.text)]
       ELSE IF firstArg.kind = "object"
            THEN PropertiesLoop(firstArg.properties, none)
            ELSE none

\* the index written one too high
KeyPatch_OneBased(firstArg, messageIndex) ==
    NewPatch(firstArg.start, firstArg.end, Decimal(messageIndex + 1))

\* the patch of the first argument: its span without leading trivia, and the index
KeyPatch(firstArg, messageIndex) ==
    NewPatch(firstArg.start, firstArg.end, Decimal(messageIndex))

\* the patch of the second argument
MessagePatch(secondArg) == NewPatch(secondArg.start, secondArg.end, <<"null">>)

\* one localize call; memo holds patches, errors, bundle, messageIndex and thrown
LocalizeOne(memo, localizeCall) ==
    IF Len(localizeCall.arguments) = 0
    THEN \* ts.isStringLiteralLike(firstArg) reads firstArg.kind of undefined
         [memo EXCEPT !.thrown = TRUE]
    ELSE LET firstArg == localizeCall.arguments[1]
             k == KeyOf(firstArg)
         IN IF k.keyNull \/ k.key = <<>>
            THEN [memo EXCEPT !.errors = Append(@, ErrorAt(firstArg.pos, "first", <<>>))]
            ELSE IF Len(localizeCall.arguments) = 1
                 THEN \* ts.isStringLiteralLike(secondArg) reads secondArg.kind of undefined
                      [memo EXCEPT !.thrown = TRUE]
                 ELSE LET secondArg == localizeCall.arguments[2]
                          messageNull == secondArg.kind # "string"
                          message == IF messageNull THEN <<>> ELSE Unquote(secondArg.text)
                      IN IF messageNull \/ message = <<>>
                         THEN [memo EXCEPT !.errors =
                                 Append(@, ErrorAt(secondArg.pos, "second", <<>>))]
                         ELSE [memo EXCEPT
                                 !.patches = @ \o
                                    <<KeyPatch(firstArg, memo.messageIndex),
                                      MessagePatch(secondArg)>>,
                                 !.messages = Append(@, UnescapeString(message)),
                                 !.keys = Append(@,
                                    [isString |-> k.comment = <<>>, key |-> k.key,
                                     comment |-> k.comment]),
                                 !.messageIndex = @ + 1]

\* the reduce over localizeCalls
RECURSIVE LocalizeLoop(_, _)
LocalizeLoop(localizeCalls, memo) ==
    IF localizeCalls = <<>> \/ memo.thrown THEN memo
    ELSE LocalizeLoop(Tail(localizeCalls), LocalizeOne(memo, Head(localizeCalls)))

\* analyze(contents, relativeFilename): patches, errors and bundle, or thrown
Analyze(f) ==
    LET loadCalls == LoadCalls(f)
        localizeCalls == LocalizeCallsLoop(loadCalls, [calls |-> <<>>, errors |-> <<>>])
    IN LocalizeLoop(localizeCalls.calls,
         [patches |-> LoadPatchesLoop(loadCalls, f.relativeFilename),
          errors |-> localizeCalls.errors,
          messages |-> <<>>, keys |-> <<>>,
          messageIndex |-> 0, thrown |-> FALSE])

\* the localize calls analyze visits, in its order
LocalizeCalls(f) ==
    LocalizeCallsLoop(LoadCalls(f), [calls |-> <<>>, errors |-> <<>>]).calls

\* ------------------------------------------------------------------------
\* processFile
\* ------------------------------------------------------------------------

\* every source map given taken for a parsed one
RawSourceMapOf_Parsed(sourceMap) ==
    [present |-> sourceMap.kind # "undefined", items |-> sourceMap.items]

\* the source map handed to the text model: a string is parsed, and a string that
\* does not parse leaves rawSourceMap undefined
RawSourceMapOf(sourceMap) ==
    IF sourceMap.kind \in {"object", "string"}
    THEN [present |-> TRUE, items |-> sourceMap.items]
    ELSE NoMap

Undefined == [defined |-> FALSE, value |-> <<>>]

\* a field that is set and yet reads as undefined
Defined_Not(v) == [defined |-> FALSE, value |-> v]

Defined(v) == [defined |-> TRUE, value |-> v]

\* processFile(contents, relativeFileName, sourceMap) given what analyze returned:
\* thrown is "none", or what analyze or textModel.apply threw
ProcessAnalysis(f, a) ==
    IF a.thrown
    THEN [thrown |-> "TypeError", contents |-> Undefined, sourceMap |-> Undefined,
          bundle |-> Undefined, errors |-> <<>>]
    ELSE IF Len(a.patches) = 0
    THEN [thrown |-> "none", contents |-> Undefined, sourceMap |-> Undefined,
          bundle |-> Undefined, errors |-> a.errors]
    ELSE LET raw == RawSourceMapOf(f.sourceMap)
             applied == ApplyPatches(NewTextModel(f.contents, raw), a.patches, raw.present)
         IN IF applied.thrown # "none"
            THEN [thrown |-> applied.thrown, contents |-> Undefined, sourceMap |-> Undefined,
                  bundle |-> Undefined, errors |-> <<>>]
            ELSE [thrown |-> "none",
                  contents |-> Defined(ToStringOf(applied.lines)),
                  sourceMap |-> IF raw.present
                                THEN Defined(GenerateSourceMapOf(applied.lines))
                                ELSE Undefined,
                  bundle |-> Defined([messages |-> a.messages, keys |-> a.keys]),
                  errors |-> a.errors]

ProcessFile(f) == ProcessAnalysis(f, Analyze(f))

\* if (result.contents): a string that is defined and not empty
HasContents(r) == r.contents.defined /\ r.contents.value # <<>>

\* the errors of a result never looked at
HasErrors_Never(r) == FALSE

\* if (result.errors && result.errors.length > 0)
HasErrors(r) == Len(r.errors) > 0

\* ------------------------------------------------------------------------
\* Source files: one statement a line (a row), from which the text of the file
\* and what the language service reports about it are laid out.  In the text of a
\* row a token stands for one character, or for a run of characters nothing looks
\* into; positions count tokens.
\*
\*   load     l<n>=n.load();         a load call bound to the variable l<n>
\*            n.load();              a load call that is an expression statement
\*   config   n.config(x)();         a configured load call
\*            n.config(x);           a reference of the binding that is no load call
\*   inline   n.load()('k', 'm');    a load call that is called in place
\*            n.load(x)(x);
\*   use      l<n>('k', 'm');        a reference of the variable declared last,
\*            x=l<n>;                called or used as a value
\*   passed   x('k', 'm', l<n>);     a reference of the variable declared last,
\*            x(l<n>);               given as the last argument of another call
\* ------------------------------------------------------------------------

Quote(s) == <<"'">> \o s \o <<"'">>

\* the shapes of a first and of a second argument; "absent" is no argument
FirstShapes == {"str", "empty", "keyComment", "commentOnly", "other"}

SecondShapes == {"str", "empty", "other"}

StringLiteral(t) == [kind |-> "string", text |-> t]

\* the source text of an argument of the given shape on the given line
ArgText(shape, tag, line) ==
    CASE shape = "str" -> Quote(<<tag>> \o Decimal(line))
      [] shape = "empty" -> Quote(<<>>)
      [] shape = "keyComment" ->
            <<"{key:">> \o Quote(<<tag>> \o Decimal(line)) \o <<",comment:[">>
            \o Quote(<<"c">>) \o <<"]}">>
      [] shape = "commentOnly" -> <<"{comment:[">> \o Quote(<<"c">>) \o <<"]}">>
      [] OTHER -> <<"x">>

\* the properties of an object literal of the given shape
ArgProperties(shape, tag, line) ==
    LET key == [isAssignment |-> TRUE, name |-> "key",
                initializer |-> [kind |-> "string", text |-> Quote(<<tag>> \o Decimal(line)),
                                 elements |-> <<>>]]
        comment == [isAssignment |-> TRUE, name |-> "comment",
                    initializer |-> [kind |-> "array", text |-> <<>>,
                                     elements |-> <<StringLiteral(Quote(<<"c">>))>>]]
    IN CASE shape = "keyComment" -> <<key, comment>>
         [] shape = "commentOnly" -> <<comment>>
         [] OTHER -> <<>>

\* the argument node: pos is where its leading trivia starts, start where it starts
Arg(shape, tag, line, pos, trivia) ==
    [kind |-> CASE shape \in {"str", "empty"} -> "string"
                [] shape \in {"keyComment", "commentOnly"} -> "object"
                [] OTHER -> "other",
     text |-> ArgText(shape, tag, line),
     properties |-> ArgProperties(shape, tag, line),
     pos |-> Pos(line, pos),
     start |-> Pos(line, pos + trivia),
     end |-> Pos(line, pos + trivia + Len(ArgText(shape, tag, line)))]

\* the call node (A1, A2) whose first argument starts at character col
Call(first, second, line, col) ==
    LET a1 == Arg(first, "k", line, col, 0)
        a2 == Arg(second, "m", line, a1.end.character + 1, 1)
    IN [line |-> line,
        arguments |-> IF first = "absent" THEN <<>>
                      ELSE IF second = "absent" THEN <<a1>> ELSE <<a1, a2>>]

\* the text of the argument list of a call
CallText(first, second, line) ==
    <<"(">>
    \o (IF first = "absent" THEN <<>> ELSE ArgText(first, "k", line))
    \o (IF first = "absent" \/ second = "absent" THEN <<>>
        ELSE <<",", " ">> \o ArgText(second, "m", line))
    \o <<")">>

NoCall == [line |-> 0, arguments |-> <<>>]

\* the text of the call x(A1, A2, name), or x(name) when there is no A1
PassedText(first, second, line, name) ==
    <<"x", "(">>
    \o (IF first = "absent" THEN <<>>
        ELSE ArgText(first, "k", line) \o <<",", " ">>
             \o ArgText(second, "m", line) \o <<",", " ">>)
    \o name \o <<")">>

\* the call node x(A1, A2, name), or x(name): the identifier is its last argument
PassedCall(first, second, line, name) ==
    LET a1 == Arg(first, "k", line, 2, 0)
        a2 == Arg(second, "m", line, a1.end.character + 1, 1)
        pos == IF first = "absent" THEN 2 ELSE a2.end.character + 1
        trivia == IF first = "absent" THEN 0 ELSE 1
        a3 == [kind |-> "other", text |-> name, properties |-> <<>>,
               pos |-> Pos(line, pos),
               start |-> Pos(line, pos + trivia),
               end |-> Pos(line, pos + trivia + Len(name))]
    IN [line |-> line,
        arguments |-> IF first = "absent" THEN <<a3>> ELSE <<a1, a2, a3>>]

Row(type, args, bound, first, second) ==
    [type |-> type, args |-> args, bound |-> bound, first |-> first, second |-> second]

\* the argument shapes of the calls of a bound variable: every first shape with a
\* message, every second shape with a key, and a call with one argument only
UseShapes ==
    {<<f, "str">> : f \in FirstShapes} \cup {<<"str", s>> : s \in SecondShapes}
    \cup {<<"str", "absent">>}

\* the arguments that come before a bound variable given to another call
PassedShapes == {<<"str", "str">>, <<"absent", "absent">>}

\* the argument shapes of a load call called in place
InlineShapes == {<<"str", "str">>, <<"str", "absent">>, <<"absent", "absent">>}

RowKinds ==
    {Row("load", a, TRUE, "absent", "absent") : a \in 0..1}
    \cup {Row("load", 0, FALSE, "absent", "absent")}
    \cup {Row("config", a, FALSE, "absent", "absent") : a \in 0..1}
    \cup {Row("inline", 0, FALSE, s[1], s[2]) : s \in InlineShapes}
    \cup {Row("inline", 1, FALSE, "other", "absent")}
    \cup {Row("use", 0, FALSE, s[1], s[2]) : s \in UseShapes}
    \cup {Row("value", 0, FALSE, "absent", "absent")}
    \cup {Row("passed", 0, FALSE, s[1], s[2]) : s \in PassedShapes}

IsBinding(row) == row.type = "load" /\ row.bound

\* the row that declares the variable row i refers to: the last declaration before
\* it, 0 when there is none
RECURSIVE BindingOf(_, _)
BindingOf(rows, i) ==
    IF i <= 1 THEN 0
    ELSE IF IsBinding(rows[i - 1]) THEN i - 1 ELSE BindingOf(rows, i - 1)

\* every reference of a variable follows a declaration
WellFormed(rows) ==
    \A i \in 1..Len(rows) : rows[i].type \in {"use", "value", "passed"} => BindingOf(rows, i) > 0

\* the name of the variable declared on a line
VarName(line) == <<"l">> \o Decimal(line)

\* row i is on line i: line 0 is the import of vscode-nls as n
RowText(rows, i) ==
    LET row == rows[i]
        argument == IF row.args = 0 THEN <<>> ELSE <<"x">>
    IN (CASE row.type = "load" ->
               (IF row.bound THEN VarName(i) \o <<"=">> ELSE <<>>)
               \o <<"n.load", "(">> \o argument \o <<")">>
          [] row.type = "config" ->
               <<"n.config", "(", "x", ")">> \o (IF row.args = 0 THEN <<"(", ")">> ELSE <<>>)
          [] row.type = "inline" ->
               <<"n.load", "(">> \o argument \o <<")">> \o CallText(row.first, row.second, i)
          [] row.type = "use" -> VarName(BindingOf(rows, i)) \o CallText(row.first, row.second, i)
          [] row.type = "passed" ->
               PassedText(row.first, row.second, i, VarName(BindingOf(rows, i)))
          [] OTHER -> <<"x", "=">> \o VarName(BindingOf(rows, i)))
       \o <<";">>

ImportText == <<"import n", ";">>

\* the text of the file
RECURSIVE ContentsLoop(_, _)
ContentsLoop(rows, i) ==
    IF i > Len(rows) THEN <<>>
    ELSE <<"LF">> \o RowText(rows, i) \o ContentsLoop(rows, i + 1)

ContentsOf(rows) == ImportText \o ContentsLoop(rows, 1)

\* what getReferencesAtPosition reports for the variable declared by row b: the
\* declaration, and every later row that refers to it.  isCallee tells whether the
\* reference is the expression of the call that is its parent; the code never
\* reads it
RECURSIVE VariableReferences(_, _, _)
VariableReferences(rows, b, i) ==
    IF i > Len(rows) THEN <<>>
    ELSE (IF i = b
          THEN <<[isWriteAccess |-> TRUE, parentIsCall |-> FALSE, isCallee |-> FALSE,
                  call |-> NoCall,
                  pos |-> Pos(i, 0), text |-> VarName(b)]>>
          ELSE IF rows[i].type = "use" /\ BindingOf(rows, i) = b
          THEN <<[isWriteAccess |-> FALSE, parentIsCall |-> TRUE, isCallee |-> TRUE,
                  call |-> Call(rows[i].first, rows[i].second, i, 3),
                  pos |-> Pos(i, 0), text |-> VarName(b)]>>
          ELSE IF rows[i].type = "passed" /\ BindingOf(rows, i) = b
          THEN LET call == PassedCall(rows[i].first, rows[i].second, i, VarName(b))
               IN <<[isWriteAccess |-> FALSE, parentIsCall |-> TRUE, isCallee |-> FALSE,
                     call |-> call,
                     pos |-> call.arguments[Len(call.arguments)].pos,
                     text |-> VarName(b)]>>
          ELSE IF rows[i].type = "value" /\ BindingOf(rows, i) = b
          THEN <<[isWriteAccess |-> FALSE, parentIsCall |-> FALSE, isCallee |-> FALSE,
                  call |-> NoCall,
                  pos |-> Pos(i, 2), text |-> VarName(b)]>>
          ELSE <<>>)
         \o VariableReferences(rows, b, i + 1)

NoLoadCall ==
    [parent |-> "other", call |-> NoCall, references |-> <<>>, arguments |-> 1,
     argsPos |-> Pos(0, 0), argsEnd |-> Pos(0, 0)]

\* the load call node of row i
LoadCallOf(rows, i) ==
    LET row == rows[i]
        open == IF row.bound \/ row.type = "config" THEN 5 ELSE 2
    IN [parent |-> IF row.type = "inline" THEN "call"
                   ELSE IF row.bound THEN "variable" ELSE "other",
        call |-> IF row.type = "inline"
                 THEN Call(row.first, row.second, i, 4 + row.args) ELSE NoCall,
        references |-> IF row.bound THEN VariableReferences(rows, i, 1) ELSE <<>>,
        arguments |-> row.args,
        argsPos |-> Pos(i, open),
        argsEnd |-> Pos(i, open + row.args)]

\* the references of the binding n, in source order: one that is no call of a
\* property of n, and every row that names n
RECURSIVE NlsReferencesLoop(_, _)
NlsReferencesLoop(rows, i) ==
    IF i > Len(rows) THEN <<>>
    ELSE (IF rows[i].type \in {"load", "inline", "config"}
          THEN <<[node |-> "propertyCall",
                  name |-> IF rows[i].type = "config" THEN "config" ELSE "loadMessageBundle",
                  called |-> rows[i].type = "config" /\ rows[i].args = 0,
                  loadCall |-> LoadCallOf(rows, i)]>>
          ELSE <<>>)
         \o NlsReferencesLoop(rows, i + 1)

NlsReferences(rows) ==
    <<[node |-> "other", name |-> "", called |-> FALSE, loadCall |-> NoLoadCall]>>
    \o NlsReferencesLoop(rows, 1)

\* a source map with a mapping at the start of each of the first n lines
LineMappings(n) == [present |-> TRUE, items |-> [i \in 1..n |-> NewMapping(i, 0)]]

\* the source maps a file of n lines comes with: none, one that maps every line, one
\* that maps the first line only, and a string that is not JSON
SourceMapsOf(n) ==
    {[kind |-> "undefined", items |-> <<>>],
     [kind |-> "object", items |-> LineMappings(n).items],
     [kind |-> "object", items |-> LineMappings(1).items],
     [kind |-> "unparsable", items |-> <<>>]}

\* the path of a file relative to the base or root directory, as path.relative
\* computes it for a file below that directory: never empty, with backslashes as
\* separators on Windows
RelativePaths == {<<"a.js">>, <<"out", "\\", "a.js">>}

SourceFile(rows, relativePath, sourceMap) ==
    [contents |-> ContentsOf(rows),
     relativePath |-> relativePath,
     sourceMap |-> sourceMap,
     nlsReferences |-> NlsReferences(rows)]

\* the arguments of processFile, with what the language service reports on contents
Passed(f, relativeFilename, sourceMap) ==
    [contents |-> f.contents,
     relativeFilename |-> relativeFilename,
     sourceMap |-> sourceMap,
     nlsReferences |-> f.nlsReferences]

NoName == [defined |-> FALSE, name |-> <<>>]

Name(n) == [defined |-> TRUE, name |-> n]

NoSourceMap == [kind |-> "undefined", items |-> <<>>]

\* the statements of the source files: up to MaxRows rows, every reference of a
\* variable after a declaration
SourceRows == {rows \in SeqsUpTo(RowKinds, MaxRows) : WellFormed(rows)}

\* ------------------------------------------------------------------------
\* The callers of processFile, each as one step on one file
\* ------------------------------------------------------------------------

\* no text model is being driven
TextIdle ==
    /\ contents = <<>>
    /\ rawSourceMap = NoMap
    /\ patches = <<>>
    /\ lines = <<>>
    /\ outcome = "none"
    /\ text = <<>>
    /\ sourceMapOut = <<>>
    /\ tpc = "idle"

\* what a caller has done with a file: the error it raised or passed to its callback,
\* what it printed with console.error, whether it passed the file on, and what it
\* emitted of the result; for the webpack loader the calls of its callback and of
\* emitFile, one after the other
NoOutput(caller) ==
    [caller |-> caller, thrown |-> "none", error |-> "none", console |-> <<>>,
     hasError |-> FALSE, passed |-> FALSE,
     contents |-> Undefined, sourceMap |-> Undefined,
     nlsJson |-> Undefined, metadataJson |-> Undefined,
     callbacks |-> <<>>, emitFiles |-> <<>>]

\* a result.sourceMap that is a non-empty string
HasSourceMap(r) == r.sourceMap.defined

\* what rewriteLocalizeCalls emits when the result carries no errors: the contents
\* and the source map if rewritten, and with a bundle the messages as .nls.json and
\* the bundle as .nls.metadata.json
Emitted(o, r) ==
    [o EXCEPT !.passed = TRUE,
              !.contents = IF HasContents(r) THEN r.contents ELSE Undefined,
              !.sourceMap = IF HasSourceMap(r) THEN r.sourceMap ELSE Undefined,
              !.nlsJson = IF r.bundle.defined THEN Defined(r.bundle.value.messages)
                          ELSE Undefined,
              !.metadataJson = r.bundle]

\* the step of a caller: processFile on what the caller passes, then what it does
\* with the result, onErrors when it has errors and onResult when it has none; a
\* throw of processFile leaves the caller without output
CallerStep(arguments, o, onErrors, onResult) ==
    LET a == Analyze(arguments)
        r == ProcessAnalysis(arguments, a)
    IN /\ fpc = "read"
       /\ passed' = arguments
       /\ analysis' = a
       /\ result' = r
       /\ out' = IF r.thrown # "none" THEN [o EXCEPT !.thrown = r.thrown]
                 ELSE IF HasErrors(r) THEN [onErrors EXCEPT !.console = r.errors]
                 ELSE onResult
       /\ fpc' = "done"
       /\ UNCHANGED <<file, textVars>>

\* a file that is no buffer is not processed
NotBuffer(caller) ==
    /\ fpc = "read"
    /\ passed' = <<>>
    /\ analysis' = <<>>
    /\ result' = <<>>
    /\ out' = [NoOutput(caller) EXCEPT !.error = "Failed to read file"]
    /\ fpc' = "done"
    /\ UNCHANGED <<file, textVars>>

\* main.ts rewriteLocalizeCalls: processFile(content, undefined, file.sourceMap)
RewriteLocalizeCalls ==
    \E isBuffer \in BOOLEAN :
      IF ~isBuffer THEN NotBuffer("rewriteLocalizeCalls")
      ELSE LET o == NoOutput("rewriteLocalizeCalls")
               arguments == Passed(file, NoName, file.sourceMap)
           IN CallerStep(arguments, o, [o EXCEPT !.error = "Failed to rewrite file"],
                         Emitted(o, ProcessFile(arguments)))

\* main.ts createMetaDataFiles: processFile(contents, undefined, undefined); the input
\* file is passed on as it is
CreateMetaDataFiles ==
    \E isBuffer \in BOOLEAN :
      IF ~isBuffer THEN NotBuffer("createMetaDataFiles")
      ELSE LET o == NoOutput("createMetaDataFiles")
               arguments == Passed(file, NoName, NoSourceMap)
           IN CallerStep(arguments, o, [o EXCEPT !.error = "Failed to rewrite file"],
                         [Emitted(o, ProcessFile(arguments))
                            EXCEPT !.contents = Undefined, !.sourceMap = Undefined])

\* relativePath.substr(0, relativePath.length - ext.length): the file name of every
\* relative path of the model is a.js
WithoutExt(relativePath) == SubSeq(relativePath, 1, Len(relativePath) - 1) \o <<"a">>

\* callback(new Error(result.errors.join()))
CallbackError(errors) ==
    [error |-> Defined(errors), content |-> <<>>, map |-> NoSourceMap,
     regenerated |-> Undefined]

\* callback(null, content, map, meta) when the result has no contents, else
\* callback(null, result.contents, result.sourceMap, meta)
CallbackResult(f, r) ==
    IF ~HasContents(r)
    THEN [error |-> Undefined, content |-> f.contents, map |-> f.sourceMap,
          regenerated |-> Undefined]
    ELSE [error |-> Undefined, content |-> r.contents.value, map |-> NoSourceMap,
          regenerated |-> r.sourceMap]

\* this.emitFile for the metadata of a result with a bundle
EmitFiles(relativePath, r) ==
    IF r.bundle.defined
    THEN <<[name |-> WithoutExt(relativePath) \o <<".nls.metadata.json">>,
            bundle |-> r.bundle.value]>>
    ELSE <<>>

\* webpack-loader.ts: processFile(content, relativePath, map); the callback gets an
\* error, or the contents and the map, rewritten or as they came; only the metadata
\* file is emitted
WebpackLoader ==
    LET o == NoOutput("webpack-loader")
        arguments == Passed(file, Name(file.relativePath), file.sourceMap)
        r == ProcessFile(arguments)
    IN CallerStep(arguments, o,
                  [o EXCEPT !.error = "callback(new Error(...))",
                            !.callbacks = <<CallbackError(r.errors)>>],
                  [Emitted(o, r)
                     EXCEPT !.nlsJson = Undefined,
                            !.sourceMap = IF HasContents(r) THEN r.sourceMap ELSE Undefined,
                            !.emitFiles = EmitFiles(file.relativePath, r),
                            !.callbacks = <<CallbackResult(file, r)>>])

\* vscl.ts, the body of matches.forEach: the relative file name is passed when
\* --keepFilenames and --rootDir are given; a source map URL with a protocol or a host
\* is reported and sets hasError, and the file is processed without source map; the
\* bundle is written as a whole into the .nls.json file
Vscl ==
    \E keepFilenames \in BOOLEAN, remote \in BOOLEAN :
      LET o == [NoOutput("vscl") EXCEPT !.hasError = remote]
          arguments == Passed(file,
                              IF keepFilenames THEN Name(file.relativePath) ELSE NoName,
                              IF remote THEN NoSourceMap ELSE file.sourceMap)
          r == ProcessFile(arguments)
      IN CallerStep(arguments, o, [o EXCEPT !.hasError = TRUE],
                    [Emitted(o, r) EXCEPT !.nlsJson = r.bundle, !.metadataJson = Undefined])

FileNext ==
    \/ RewriteLocalizeCalls
    \/ CreateMetaDataFiles
    \/ WebpackLoader
    \/ Vscl

\* ---- source files of up to MaxRows statements, through any caller ----
InitFile ==
    /\ TextIdle
    /\ CallIdle
    /\ BundlerIdle
    /\ \E rows \in SourceRows, relativePath \in RelativePaths :
         \E sourceMap \in SourceMapsOf(Len(rows) + 1) :
           file = SourceFile(rows, relativePath, sourceMap)
    /\ passed = <<>>
    /\ analysis = <<>>
    /\ result = <<>>
    /\ out = <<>>
    /\ fpc = "read"

SpecFile == InitFile /\ [][FileNext /\ UNCHANGED <<callVars, bundlerVars>>]_vars

\* ------------------------------------------------------------------------
\* Properties of analyze, processFile and the callers
\* ------------------------------------------------------------------------

\* a caller has run processFile on the file
Analyzed == fpc = "done" /\ out.error # "Failed to read file"

\* analyze has returned
Returned == Analyzed /\ ~analysis.thrown

\* the call sites analyze visits: the calls of load calls called in place, and the
\* calls of bound variables with two arguments or more
Sites == LocalizeCalls(passed)

\* the key a first argument supplies according to its shape: the text of a string
\* literal, or of the string literal that is the key property of an object literal
HasKeyLiteral(arg) ==
    \/ arg.kind = "string"
    \/ /\ arg.kind = "object"
       /\ \E i \in 1..Len(arg.properties) :
            arg.properties[i].name = "key" /\ arg.properties[i].initializer.kind = "string"

KeyLiteral(arg) ==
    IF arg.kind = "string" THEN arg.text
    ELSE LET i == CHOOSE j \in 1..Len(arg.properties) :
                    /\ arg.properties[j].name = "key"
                    /\ arg.properties[j].initializer.kind = "string"
         IN arg.properties[i].initializer.text

\* a call site of the shape that is to be accepted
ValidShape(call) ==
    /\ Len(call.arguments) >= 2
    /\ HasKeyLiteral(call.arguments[1])
    /\ call.arguments[2].kind = "string"

\* a call site of that shape whose key and message are not empty
Accepted(call) ==
    /\ ValidShape(call)
    /\ Len(KeyLiteral(call.arguments[1])) > 2
    /\ Len(call.arguments[2].text) > 2

\* the lines of the call sites cs, in the order of cs
LinesOf(cs) == [i \in 1..Len(cs) |-> cs[i].line]

Ascending(ns) == \A i \in 1..Len(ns), j \in 1..Len(ns) : i < j => ns[i] < ns[j]

\* entry i of the bundle and the patch with index i belong to call site c
EntryOf(a, i, c) ==
    /\ a.messages[i] = UnescapeString(SubSeq(c.arguments[2].text, 2, Len(c.arguments[2].text) - 1))
    /\ a.keys[i].key = SubSeq(KeyLiteral(c.arguments[1]), 2, Len(KeyLiteral(c.arguments[1])) - 1)
    /\ \E k \in 1..Len(a.patches) :
         /\ a.patches[k].span.start = c.arguments[1].start
         /\ a.patches[k].span.end = c.arguments[1].end
         /\ a.patches[k].content = Decimal(i - 1)
    /\ \A k \in 1..Len(a.patches) :
         a.patches[k].span.start = c.arguments[1].start => a.patches[k].content = Decimal(i - 1)

\* entry by entry, the bundle and the key patches belong to the call sites cs
EntriesOf(a, cs) ==
    /\ Len(a.messages) = Len(cs)
    /\ Len(a.keys) = Len(cs)
    /\ \A i \in 1..Len(cs) : EntryOf(a, i, cs[i])

\* the call sites sorted by the line they are on
RECURSIVE InsertByLine(_, _)
InsertByLine(sorted, c) ==
    IF sorted = <<>> THEN <<c>>
    ELSE IF c.line < Head(sorted).line THEN <<c>> \o sorted
         ELSE <<Head(sorted)>> \o InsertByLine(Tail(sorted), c)

RECURSIVE InSourceOrder(_)
InSourceOrder(cs) ==
    IF cs = <<>> THEN <<>>
    ELSE InsertByLine(InSourceOrder(SubSeq(cs, 1, Len(cs) - 1)), cs[Len(cs)])

\* C4, as stated: whenever analyze returns, entry i of the bundle and the key patch
\* with content i belong to the i-th accepted call site in source order
C4_SourceOrder == Returned => EntriesOf(analysis, InSourceOrder(SelectSeq(Sites, Accepted)))

\* C4, amended: whenever analyze returns, entry i of the bundle and the key patch
\* with content i belong to the i-th accepted call site in the order analyze visits
\* the call sites (load call by load call, the references of a bound variable at its
\* load call); call sites that are not accepted take no index; with at most one
\* load call in the file that order is the source order
C4_VisitingOrder ==
    Returned =>
      /\ EntriesOf(analysis, SelectSeq(Sites, Accepted))
      /\ Len(LoadCalls(passed)) <= 1 =>
            EntriesOf(analysis, InSourceOrder(SelectSeq(Sites, Accepted)))

\* two accepted call sites are visited against their source order, and both got
\* their entries and indexes in visiting order
C4_Interleaved ==
    /\ Returned
    /\ Len(SelectSeq(Sites, Accepted)) = 2
    /\ ~Ascending(LinesOf(SelectSeq(Sites, Accepted)))
    /\ analysis.messages = <<<<"m", "3">>, <<"m", "2">>>>
    /\ analysis.keys[1].key = <<"k", "3">>
    /\ analysis.keys[2].key = <<"k", "2">>

\* the load calls of the file that have no argument
ZeroArgumentLoads == SelectSeq(LoadCalls(passed), LAMBDA lc : lc.arguments = 0)

NothingRewritten ==
    /\ analysis.patches = <<>>
    /\ analysis.messages = <<>>
    /\ analysis.keys = <<>>
    /\ ~result.contents.defined
    /\ ~result.sourceMap.defined
    /\ ~result.bundle.defined

\* C5, as stated: whenever analyze returns for a file without an accepted localize
\* call, with or without load calls, the patch list and the bundle are empty and
\* processFile returns contents and sourceMap undefined
C5_NoCallsNoPatches == Returned /\ SelectSeq(Sites, Accepted) = <<>> => NothingRewritten

\* C5, amended: whenever analyze returns for a file without an accepted localize
\* call and without a load call that has no argument, the patch list and the bundle
\* are empty and processFile returns contents, sourceMap and bundle undefined
C5_NoCallsNoEmptyLoads ==
    Returned /\ SelectSeq(Sites, Accepted) = <<>> /\ ZeroArgumentLoads = <<>> => NothingRewritten

\* a file with a source map, a load call that has an argument and a call site that
\* is reported: nothing is rewritten
C5_LoadWithArgument ==
    /\ Returned
    /\ passed.sourceMap.kind = "object"
    /\ Len(LoadCalls(passed)) > 0
    /\ ZeroArgumentLoads = <<>>
    /\ Len(Sites) > 0
    /\ Len(analysis.errors) > 0
    /\ NothingRewritten

\* the errors of call sites analyze visited
CallErrors == SelectSeq(analysis.errors, LAMBDA e : e.message # "unusual")

\* C6, as stated: whenever analyze returns, the call sites with a literal key and a
\* literal message each add one message, one key and two patches, and every other
\* call site adds one error and nothing else
C6_AcceptedExactlyLiterals ==
    Returned =>
      LET valid == SelectSeq(Sites, ValidShape)
      IN /\ Len(analysis.messages) = Len(valid)
         /\ Len(analysis.keys) = Len(valid)
         /\ Len(CallErrors) = Len(Sites) - Len(valid)
         /\ Len(analysis.patches) = 2 * Len(valid) + Len(ZeroArgumentLoads)

\* a call with a string literal as key and the empty string literal as message is
\* reported and not accepted
C6_EmptyLiteralRejected ==
    /\ Returned
    /\ Len(Sites) = 1
    /\ ValidShape(Sites[1])
    /\ Sites[1].arguments[1].kind = "string"
    /\ Sites[1].arguments[2].text = Quote(<<>>)
    /\ analysis.messages = <<>>
    /\ Len(CallErrors) = 1
    /\ CallErrors[1].message = "second"

\* C7, as stated: analyze never throws, and every accepted call site is bundled
\* whatever the other call sites are
C7_NeverThrows ==
    Analyzed => /\ ~analysis.thrown
                /\ Len(analysis.messages) = Len(SelectSeq(Sites, Accepted))

\* analyze throws at a load call called in place with fewer than two arguments, in
\* a file that has an accepted call site; the caller gets the exception
C7_Thrown ==
    /\ Analyzed
    /\ analysis.thrown
    /\ \E i \in 1..Len(Sites) : Len(Sites[i].arguments) < 2
    /\ SelectSeq(Sites, Accepted) # <<>>
    /\ result.thrown = "TypeError"
    /\ out.thrown = "TypeError"

\* every backslash of a name twice
Doubled(name) ==
    Flatten([i \in 1..Len(name) |-> IF name[i] = "\\" THEN <<"\\", "\\">> ELSE <<name[i]>>])

\* the patches that start within the argument list of a load call
PatchesAt(loadCall) ==
    SelectSeq(analysis.patches,
              LAMBDA p : /\ p.span.start.line = loadCall.argsPos.line
                         /\ p.span.start.character >= loadCall.argsPos.character
                         /\ p.span.start.character <= loadCall.argsEnd.character)

\* C9: whenever analyze returns, every load call without arguments has exactly one
\* patch, on its empty argument list, with __filename as content when no relative
\* file name is passed and the require expression with the backslashes of the name
\* doubled when one is passed; a load call with arguments has no patch
C9_LoadCallPatches ==
    Returned =>
      \A i \in 1..Len(LoadCalls(passed)) :
        LET loadCall == LoadCalls(passed)[i]
        IN IF loadCall.arguments = 0
           THEN /\ Len(PatchesAt(loadCall)) = 1
                /\ PatchesAt(loadCall)[1].span = [start |-> loadCall.argsPos, end |-> loadCall.argsPos]
                /\ PatchesAt(loadCall)[1].content =
                     IF passed.relativeFilename.defined
                     THEN <<"require('path').join(__dirname, '">>
                          \o Doubled(passed.relativeFilename.name) \o <<"')">>
                     ELSE <<"__filename">>
           ELSE PatchesAt(loadCall) = <<>>

\* a file with a load call without arguments and one with an argument, processed
\* with a relative file name that has a backslash in it
C9_BackslashDoubled ==
    /\ Returned
    /\ passed.relativeFilename = Name(<<"out", "\\", "a.js">>)
    /\ ZeroArgumentLoads # <<>>
    /\ Len(ZeroArgumentLoads) < Len(LoadCalls(passed))
    /\ \E k \in 1..Len(analysis.patches) :
         analysis.patches[k].content =
           <<"require('path').join(__dirname, '", "out", "\\", "\\", "a.js", "')">>

\* C10: in every caller, when processFile returns a result with errors, nothing of
\* the result is emitted (no contents, no source map, no bundle or metadata file,
\* and the file is not passed on) and the errors are reported: printed, and raised
\* as an error of the stream, passed to the callback, or recorded in hasError
C10_ErrorsWithholdOutput ==
    Returned /\ result.thrown = "none" /\ Len(result.errors) > 0 =>
      /\ ~out.contents.defined
      /\ ~out.sourceMap.defined
      /\ ~out.nlsJson.defined
      /\ ~out.metadataJson.defined
      /\ ~out.passed
      /\ out.console = result.errors
      /\ out.error # "none" \/ out.hasError

\* the webpack loader got a result with rewritten contents, a bundle and errors, and
\* passed an error to its callback
C10_LoaderWithholds ==
    /\ Returned
    /\ out.caller = "webpack-loader"
    /\ Len(result.errors) > 0
    /\ result.contents.defined
    /\ result.bundle.defined
    /\ ~out.contents.defined
    /\ ~out.metadataJson.defined
    /\ out.error = "callback(new Error(...))"

\* ---- what processFile returns ----

\* processFile has returned a result to its caller
ProcessFileReturned == Returned /\ result.thrown = "none"

\* C11: whenever processFile returns, contents, sourceMap and bundle are all
\* undefined exactly when analyze produced no patch, the errors of analyze are
\* returned in both cases, and with a patch contents and bundle are both defined
C11_UndefinedIffNoPatches ==
    ProcessFileReturned =>
      /\ (~result.contents.defined /\ ~result.sourceMap.defined /\ ~result.bundle.defined)
           <=> Len(analysis.patches) = 0
      /\ result.errors = analysis.errors
      /\ Len(analysis.patches) > 0 => result.contents.defined /\ result.bundle.defined

\* a result with patches and errors both: contents and bundle defined, no source map
\* as none came in, and the errors of analyze handed on
C11_PatchesAndErrors ==
    /\ ProcessFileReturned
    /\ Len(analysis.patches) > 0
    /\ Len(analysis.errors) > 0
    /\ passed.sourceMap.kind = "undefined"
    /\ result.contents.defined
    /\ result.bundle.defined
    /\ ~result.sourceMap.defined
    /\ result.errors = analysis.errors

\* ------------------------------------------------------------------------
\* Message bundles and their translation (resolveMessageBundle,
\* asTranslatedMessages, createLocalizedMessages)
\*
\* A key, a message and a translation are strings taken whole.  A JavaScript
\* object is the sequence of its own properties in insertion order.
\* ------------------------------------------------------------------------

\* most keys of a bundle
MaxKeys == 2

BundleKeys == {"k1", "k2"}

SourceMessages == {"A", "B"}

Translations == {"X", ""}

\* Object.keys(o)
ObjectKeys(o) == [i \in 1..Len(o) |-> o[i].key]

\* o[key]
Get(o, key) ==
    IF \E i \in 1..Len(o) : o[i].key = key
    THEN Defined(o[CHOOSE i \in 1..Len(o) : o[i].key = key].value)
    ELSE Undefined

\* o[key] = value
Put(o, key, value) ==
    IF \E i \in 1..Len(o) : o[i].key = key
    THEN [i \in 1..Len(o) |-> IF o[i].key = key THEN [key |-> key, value |-> value] ELSE o[i]]
    ELSE Append(o, [key |-> key, value |-> value])

\* a KeyInfo: a string, or a LocalizeInfo with a key and a comment
StringKey(key) == [isString |-> TRUE, string |-> key]

LocalizeInfo(key, comment) == [isString |-> FALSE, key |-> key, comment |-> comment]

NullBundle == [kind |-> "null"]

\* the forEach of resolveMessageBundle, from the entry at index on
RECURSIVE ResolveLoop(_, _, _)
ResolveLoop(bundle, index, acc) ==
    IF index >= Len(bundle.keys) THEN acc
    ELSE LET key == bundle.keys[index + 1]
             resolvedKey == IF key.isString THEN key.string ELSE key.key
         IN  ResolveLoop(bundle, index + 1,
                         [acc EXCEPT !.keys = Append(@, resolvedKey),
                                     !.map = Put(@, resolvedKey, bundle.messages[index + 1])])

ResolveMessageBundle(bundle) ==
    IF bundle.kind = "javascript"
    THEN IF Len(bundle.messages) # Len(bundle.keys) THEN NullBundle
         ELSE ResolveLoop(bundle, 0, [kind |-> "resolved", messages |-> bundle.messages,
                                      keys |-> <<>>, map |-> <<>>])
    ELSE bundle

\* a line of the problems: its wording, and the key or the count it names
Problem(wording, key, count) == [wording |-> wording, key |-> key, count |-> count]

NoLocalizedMessage(key) == Problem("No localized message found for key", key, 0)

\* the body of both asTranslatedMessages: the message for one key, and the
\* problems after it
TranslatedOne(translatedMessages, key, fallback, problems) ==
    LET translated == IF translatedMessages.defined THEN Get(translatedMessages.value, key)
                      ELSE Undefined
    IN  IF ~translated.defined
        THEN [message |-> fallback.value,
              problems |-> IF translatedMessages.defined
                           THEN Append(problems, NoLocalizedMessage(key)) ELSE problems]
        ELSE [message |-> translated.value, problems |-> problems]

\* ResolvedJavaScriptMessageBundle.asTranslatedMessages, from the key at index on
RECURSIVE ResolvedLoop(_, _, _, _)
ResolvedLoop(bundle, translatedMessages, index, acc) ==
    IF index >= Len(bundle.keys) THEN acc
    ELSE LET key == bundle.keys[index + 1]
             one == TranslatedOne(translatedMessages, key, Get(bundle.map, key), acc.problems)
         IN  ResolvedLoop(bundle, translatedMessages, index + 1,
                          [result |-> Append(acc.result, one.message), problems |-> one.problems])

\* PackageJsonMessageBundle.asTranslatedMessages, from the key at index on
RECURSIVE PackageLoop(_, _, _, _)
PackageLoop(bundle, translatedMessages, index, acc) ==
    IF index >= Len(ObjectKeys(bundle.entries)) THEN acc
    ELSE LET key == ObjectKeys(bundle.entries)[index + 1]
             one == TranslatedOne(translatedMessages, key, Get(bundle.entries, key), acc.problems)
         IN  PackageLoop(bundle, translatedMessages, index + 1,
                         [result |-> Put(acc.result, key, one.message), problems |-> one.problems])

\* ResolvedJavaScriptMessageBundle.is
IsResolved(bundle) == bundle.kind = "resolved"

\* asTranslatedMessages of the namespace the bundle belongs to
AsTranslatedMessages(bundle, translatedMessages, problems) ==
    IF IsResolved(bundle)
    THEN ResolvedLoop(bundle, translatedMessages, 0, [result |-> <<>>, problems |-> problems])
    ELSE PackageLoop(bundle, translatedMessages, 0, [result |-> <<>>, problems |-> problems])

\* ---- the message file of a language ----
\* exists: whether the file is there; json: whether its text, comments aside, is
\* JSON; comments: whether it holds comments; entries: the object it denotes
MissingFile == [exists |-> FALSE, json |-> FALSE, comments |-> FALSE, entries |-> <<>>]

MalformedFile == [exists |-> TRUE, json |-> FALSE, comments |-> FALSE, entries |-> <<>>]

MessageFile(entries, comments) ==
    [exists |-> TRUE, json |-> TRUE, comments |-> comments, entries |-> entries]

StripComments(fileContent) == [fileContent EXCEPT !.comments = FALSE]

\* JSON.parse: a SyntaxError for a text that is not JSON
JsonParse(fileContent) ==
    IF fileContent.json /\ ~fileContent.comments
    THEN [thrown |-> "none", value |-> fileContent.entries]
    ELSE [thrown |-> "SyntaxError", value |-> <<>>]

BundleLength(bundle) ==
    IF IsResolved(bundle) THEN Len(bundle.keys) ELSE Len(ObjectKeys(bundle.entries))

BlankLine == Problem("", "", 0)

ProblemsHeader ==
    <<Problem("Generating localized messages resulted in the following problems", "", 0),
      BlankLine>>

Framed(problems) ==
    IF Len(problems) > 0 THEN ProblemsHeader \o problems \o <<BlankLine, BlankLine>>
    ELSE problems

CreateLocalizedMessages(bundle, i18nFile) ==
    LET bundleLength == BundleLength(bundle)
        parsed == JsonParse(StripComments(i18nFile))
        isEmpty == Len(ObjectKeys(parsed.value)) = 0
        messages == IF i18nFile.exists /\ ~isEmpty THEN Defined(parsed.value) ELSE Undefined
        problems ==
            IF i18nFile.exists
            THEN IF isEmpty /\ bundleLength > 0
                 THEN <<Problem("Message file is empty. Missing messages", "", bundleLength)>>
                 ELSE <<>>
            ELSE IF bundleLength > 0
                 THEN <<Problem("Message file not found. Missing messages", "", bundleLength)>>
                 ELSE <<>>
        translated == AsTranslatedMessages(bundle, messages, problems)
    IN  IF i18nFile.exists /\ parsed.thrown # "none"
        THEN [thrown |-> parsed.thrown, messages |-> <<>>, problems |-> <<>>]
        ELSE [thrown |-> "none", messages |-> translated.result,
              problems |-> Framed(translated.problems)]


\* ---- bundles and message files of up to MaxKeys entries ----
KeyInfos == {StringKey(k) : k \in BundleKeys} \cup {LocalizeInfo(k, <<"c">>) : k \in BundleKeys}

JavaScriptBundles ==
    {[kind |-> "javascript", messages |-> m, keys |-> k] :
        m \in SeqsUpTo(SourceMessages, MaxKeys), k \in SeqsUpTo(KeyInfos, MaxKeys)}

\* the objects with up to n properties named in names, valued in values
ObjectsOver(names, values, n) ==
    {o \in SeqsUpTo([key : names, value : values], n) :
        \A i, j \in 1..Len(o) : o[i].key = o[j].key => i = j}

PackageBundles ==
    {[kind |-> "package", entries |-> o] : o \in ObjectsOver(BundleKeys, SourceMessages, MaxKeys)}

TranslationMaps == ObjectsOver(BundleKeys, Translations, Cardinality(BundleKeys))

MessageFiles ==
    {MissingFile, MalformedFile}
        \cup {MessageFile(o, c) : o \in TranslationMaps, c \in BOOLEAN}

ResolveMessageBundle_call ==
    /\ lpc = "bundle"
    /\ output' = [resolved |-> ResolveMessageBundle(input.bundle)]
    /\ lpc' = "resolved"
    /\ UNCHANGED input

AsTranslatedMessages_call ==
    /\ lpc = "resolved"
    /\ output.resolved # NullBundle
    /\ \E translatedMessages \in {Undefined} \cup {Defined(o) : o \in TranslationMaps} :
         output' = [resolved |-> output.resolved, translatedMessages |-> translatedMessages,
                    translated |-> AsTranslatedMessages(output.resolved, translatedMessages, <<>>)]
    /\ lpc' = "translated"
    /\ UNCHANGED input

CreateLocalizedMessages_call ==
    /\ lpc = "resolved"
    /\ output.resolved # NullBundle
    /\ output' = [resolved |-> output.resolved,
                  localized |-> CreateLocalizedMessages(output.resolved, input.i18nFile)]
    /\ lpc' = "localized"
    /\ UNCHANGED input

MessagesNext ==
    \/ ResolveMessageBundle_call
    \/ AsTranslatedMessages_call
    \/ CreateLocalizedMessages_call

InitMessages ==
    /\ TextIdle
    /\ FileIdle
    /\ BundlerIdle
    /\ \E bundle \in JavaScriptBundles \cup PackageBundles, i18nFile \in MessageFiles :
         input = [bundle |-> bundle, i18nFile |-> i18nFile]
    /\ output = <<>>
    /\ lpc = "bundle"

SpecMessages ==
    InitMessages /\ [][MessagesNext /\ UNCHANGED <<textVars, fileVars, bundlerVars>>]_vars

\* ------------------------------------------------------------------------
\* Properties of the message bundles
\* ------------------------------------------------------------------------

\* asTranslatedMessages has returned
Translated == lpc = "translated"

\* the keys of a resolved or flat bundle, in bundle order
KeysOf(bundle) == IF IsResolved(bundle) THEN bundle.keys ELSE ObjectKeys(bundle.entries)

\* the source message that stands with the i-th key of the bundle
SourceMessage(bundle, i) ==
    IF IsResolved(bundle) THEN bundle.messages[i] ELSE bundle.entries[i].value

\* the translation map has a value for the key
HasTranslation(translatedMessages, key) ==
    translatedMessages.defined /\ \E i \in 1..Len(translatedMessages.value) :
                                    translatedMessages.value[i].key = key

TranslationOf(translatedMessages, key) ==
    LET o == translatedMessages.value
    IN  o[CHOOSE i \in 1..Len(o) : o[i].key = key].value

\* the problems for the keys from the i-th on that the supplied map misses
RECURSIVE MissingFrom(_, _, _)
MissingFrom(keys, translatedMessages, i) ==
    IF i > Len(keys) THEN <<>>
    ELSE (IF translatedMessages.defined /\ ~HasTranslation(translatedMessages, keys[i])
          THEN <<Problem("No localized message found for key", keys[i], 0)>> ELSE <<>>)
         \o MissingFrom(keys, translatedMessages, i + 1)

Localized == lpc = "localized"

\* the message file is missing, or holds no JSON text, or holds an object without
\* properties
AbsentOrUnusable(i18nFile) ==
    \/ ~i18nFile.exists
    \/ ~i18nFile.json
    \/ i18nFile.entries = <<>>

\* the message returned for the i-th key is a source message of that key
IsSourceMessage(bundle, messages, i) ==
    \E j \in 1..Len(KeysOf(bundle)) :
        /\ KeysOf(bundle)[j] = KeysOf(bundle)[i]
        /\ SourceMessage(bundle, j) = (IF IsResolved(bundle) THEN messages[i] ELSE messages[i].value)

\* C13: createLocalizedMessages treats a missing, empty or unparsable message file
\* as absent: it does not throw, it returns the source message for every key, and
\* it records the condition as a problem
C13_UnusableFileIsAbsent ==
    (Localized /\ AbsentOrUnusable(input.i18nFile)) =>
      LET bundle == output.resolved
          localized == output.localized
      IN  /\ localized.thrown = "none"
          /\ Len(localized.messages) = Len(KeysOf(bundle))
          /\ \A i \in 1..Len(KeysOf(bundle)) : IsSourceMessage(bundle, localized.messages, i)
          /\ Len(KeysOf(bundle)) > 0 => Len(localized.problems) > 0

\* a message file that is not JSON: JSON.parse throws out of createLocalizedMessages
C13_MalformedFileThrows ==
    /\ Localized
    /\ input.i18nFile = MalformedFile
    /\ Len(KeysOf(output.resolved)) > 0
    /\ output.localized.thrown = "SyntaxError"

\* ------------------------------------------------------------------------
\* unescapeString on its own
\* ------------------------------------------------------------------------

\* longest string given to unescapeString
MaxStr == 3

\* the characters of those strings: the backslash, what unescapeMap knows, and
\* one character it does not know
EscapeChars == UnescapeKeys \cup {"x"}

UnescapeString_call ==
    /\ lpc = "escaped"
    /\ output' = UnescapeString(input)
    /\ lpc' = "unescaped"
    /\ UNCHANGED input

InitUnescape ==
    /\ TextIdle
    /\ FileIdle
    /\ BundlerIdle
    /\ input \in SeqsUpTo(EscapeChars, MaxStr)
    /\ output = <<>>
    /\ lpc = "escaped"

SpecUnescape ==
    InitUnescape /\ [][UnescapeString_call /\ UNCHANGED <<textVars, fileVars, bundlerVars>>]_vars

\* the one character an escape sequence stands for
Literal(ch) ==
    CASE ch = "n" -> "LF" [] ch = "r" -> "CR" [] ch = "t" -> "TAB"
      [] ch = "b" -> "BSP" [] ch = "f" -> "FF"
      [] ch = "\\" -> "\\" [] ch = "'" -> "'" [] ch = "\"" -> "\""

\* one pass from the left: an escape sequence gives its character and is passed
\* over whole; any other character, a backslash included, stays
RECURSIVE SinglePass(_)
SinglePass(s) ==
    IF s = <<>> THEN <<>>
    ELSE IF Len(s) >= 2 /\ s[1] = "\\" /\ s[2] \in {"n", "r", "t", "b", "f", "\\", "'", "\""}
         THEN <<Literal(s[2])>> \o SinglePass(SubSeq(s, 3, Len(s)))
         ELSE <<s[1]>> \o SinglePass(Tail(s))

\* C14: unescapeString is a single pass from the left: a backslash followed by n,
\* r, t, b, f, a backslash or a quote becomes the one character (what was escaped
\* is not scanned again, so two backslashes and n give a backslash and n), and a
\* backslash followed by anything else, or at the end, is kept
C14_SinglePass ==
    lpc = "unescaped" =>
      /\ output = SinglePass(input)
      /\ input = <<"\\", "\\", "n">> => output = <<"\\", "n">>
      /\ input = <<"\\", "x">> => output = <<"\\", "x">>
      /\ (Len(input) = 1 /\ input[1] = "\\") => output = <<"\\">>

C14_EscapedBackslashThenN ==
    /\ lpc = "unescaped"
    /\ input = <<"\\", "\\", "n">>
    /\ output = <<"\\", "n">>

\* ---- a source map string that does not parse ----
\* what processFile returns for the same arguments without a source map
WithoutSourceMap == ProcessFile([passed EXCEPT !.sourceMap = NoSourceMap])

\* C15: given a source map string that is not JSON and a file with a patch,
\* processFile behaves as without source map: the same contents and bundle, the
\* sourceMap undefined, no error added and nothing thrown
C15_UnparsableMapIsNoMap ==
    (Returned /\ passed.sourceMap.kind = "unparsable" /\ Len(analysis.patches) > 0) =>
      /\ result.thrown = "none"
      /\ result.contents = WithoutSourceMap.contents
      /\ result.bundle = WithoutSourceMap.bundle
      /\ result.contents.defined /\ result.bundle.defined
      /\ ~result.sourceMap.defined
      /\ result.errors = analysis.errors

C15_RewrittenWithoutMap ==
    /\ Returned /\ passed.sourceMap.kind = "unparsable" /\ Len(analysis.patches) > 1
    /\ result.thrown = "none"
    /\ result.contents.defined /\ result.contents.value # passed.contents
    /\ ~result.sourceMap.defined

\* ------------------------------------------------------------------------
\* MetaDataBundler
\*
\* A file path is a sequence of characters; keys and messages are taken whole.
\* ------------------------------------------------------------------------

\* most calls of add on one bundler
MaxAdds == 3

\* the UTF-16 code unit of a character of a path
CodeUnit(ch) ==
    CASE ch = "/" -> 47 [] ch = "\\" -> 92 [] ch = "a" -> 97 [] ch = "b" -> 98 [] ch = "d" -> 100

\* a path kept as it is
NormalizeSlashes_Same(filePath) == filePath

\* filePath.replace(/\\/g, '/')
NormalizeSlashes(filePath) ==
    [i \in 1..Len(filePath) |-> IF filePath[i] = "\\" THEN "/" ELSE filePath[i]]

\* the order of Array.prototype.sort without a comparator: by code units, a prefix first
RECURSIVE ComesBefore(_, _)
ComesBefore(a, b) ==
    IF a = <<>> THEN b # <<>>
    ELSE IF b = <<>> THEN FALSE
    ELSE IF a[1] = b[1] THEN ComesBefore(Tail(a), Tail(b))
    ELSE CodeUnit(a[1]) < CodeUnit(b[1])

RECURSIVE InsertKey(_, _)
InsertKey(sorted, key) ==
    IF sorted = <<>> THEN <<key>>
    ELSE IF ComesBefore(key, Head(sorted)) THEN <<key>> \o sorted
    ELSE <<Head(sorted)>> \o InsertKey(Tail(sorted), key)

\* keys as they are
SortKeys_Unsorted(keys) == keys

\* Object.keys(this.content).sort()
RECURSIVE SortKeys(_)
SortKeys(keys) ==
    IF keys = <<>> THEN <<>> ELSE InsertKey(SortKeys(Tail(keys)), Head(keys))

\* get size()
BundlerSize(b) == Len(ObjectKeys(b.content))

\* add(file)
BundlerAdd(b, f) ==
    [b EXCEPT !.content = Put(@, NormalizeSlashes(f.filePath),
                              [messages |-> f.messages, keys |-> f.keys])]

\* what the loops of bundle() give md5.update for one entry: the key strings, then
\* the messages
EntryUpdates(entry) ==
    [i \in 1..Len(entry.keys) |->
        IF entry.keys[i].isString THEN <<entry.keys[i].string>> ELSE <<entry.keys[i].key>>]
    \o [i \in 1..Len(entry.messages) |-> <<entry.messages[i]>>]

\* the calls of md5.update for the sorted keys from the i-th on
RECURSIVE UpdatesFrom(_, _, _)
UpdatesFrom(b, keys, i) ==
    IF i > Len(keys) THEN <<>>
    ELSE <<keys[i]>> \o EntryUpdates(Get(b.content, keys[i]).value)
         \o UpdatesFrom(b, keys, i + 1)

\* md5.digest('hex'): the finger print of the characters given to update, one
\* after the other
Md5Digest(updates) == [md5 |-> Flatten(updates)]

\* bundle()
BundlerBundle(b) ==
    LET keys == SortKeys(ObjectKeys(b.content))
        hash == Md5Digest(UpdatesFrom(b, keys, 1))
    IN  [header |-> [id |-> b.id, type |-> "extensionBundle", hash |-> hash,
                     outDir |-> b.outDir],
         content |-> b.content]

\* ---- the files given to add ----
FilePaths == {<<"a">>, <<"b">>, <<"d", "/", "a">>, <<"d", "\\", "a">>}

FileEntries ==
    {[messages |-> <<>>, keys |-> <<>>],
     [messages |-> <<"A">>, keys |-> <<StringKey("k1")>>],
     [messages |-> <<"B">>, keys |-> <<LocalizeInfo("k2", <<"c">>)>>]}

MetaDataFiles ==
    {[messages |-> e.messages, keys |-> e.keys, filePath |-> p] :
        e \in FileEntries, p \in FilePaths}

MetaDataBundler_add ==
    /\ bpc \in {"open", "bundled"}
    /\ Len(adds) < MaxAdds
    /\ \E f \in MetaDataFiles :
         /\ bundler' = BundlerAdd(bundler, f)
         /\ adds' = Append(adds, f)
    /\ bpc' = "open"
    /\ UNCHANGED bundled

MetaDataBundler_bundle ==
    /\ bpc = "open"
    /\ bundled' = BundlerBundle(bundler)
    /\ bpc' = "bundled"
    /\ UNCHANGED <<bundler, adds>>

BundlerNext ==
    \/ MetaDataBundler_add
    \/ MetaDataBundler_bundle

\* new MetaDataBundler(id, outDir)
InitBundler ==
    /\ TextIdle
    /\ FileIdle
    /\ CallIdle
    /\ bundler = [id |-> "ext", outDir |-> "out", content |-> <<>>]
    /\ adds = <<>>
    /\ bundled = <<>>
    /\ bpc = "open"

SpecBundler ==
    InitBundler /\ [][BundlerNext /\ UNCHANGED <<textVars, fileVars, callVars>>]_vars

\* ---- properties of the bundler ----
\* a path with a slash for every backslash
Slashed(p) == [i \in 1..Len(p) |-> IF p[i] = "\\" THEN "/" ELSE p[i]]

\* the paths added so far, normalised
AddedPaths == {Slashed(adds[i].filePath) : i \in 1..Len(adds)}

\* the most recent add for a path
LastAdd(p) ==
    adds[CHOOSE i \in 1..Len(adds) :
           /\ Slashed(adds[i].filePath) = p
           /\ \A j \in (i + 1)..Len(adds) : Slashed(adds[j].filePath) # p]

\* C16: after any adds the bundler holds one entry per distinct normalised file
\* path, the entry carries the messages and keys of the most recent add for that
\* path (so an add leaves the entries of the other paths as they were), and size
\* is the number of distinct normalised paths
C16_OneEntryPerPath ==
    LET keys == ObjectKeys(bundler.content)
    IN  /\ \A i, j \in 1..Len(keys) : keys[i] = keys[j] => i = j
        /\ {keys[i] : i \in 1..Len(keys)} = AddedPaths
        /\ \A i \in 1..Len(keys) :
              bundler.content[i].value = [messages |-> LastAdd(keys[i]).messages,
                                          keys |-> LastAdd(keys[i]).keys]
        /\ BundlerSize(bundler) = Cardinality(AddedPaths)

\* d\a is added after d/a: one entry for both, with what the later add brought
C16_BackslashPathReplaces ==
    /\ Len(adds) = 3
    /\ adds[1].filePath = <<"d", "/", "a">> /\ adds[1].messages = <<"A">>
    /\ adds[2].filePath = <<"b">>
    /\ adds[3].filePath = <<"d", "\\", "a">> /\ adds[3].messages = <<"B">>
    /\ BundlerSize(bundler) = 2
    /\ Get(bundler.content, <<"d", "/", "a">>).value.messages = <<"B">>

\* the added paths in ascending order
PathsInOrder ==
    CHOOSE s \in [1..Cardinality(AddedPaths) -> AddedPaths] :
        \A i, j \in 1..Cardinality(AddedPaths) : i < j => ComesBefore(s[i], s[j])

\* a path, the key strings of its file and then its messages
FileData(p) ==
    <<p>> \o [i \in 1..Len(LastAdd(p).keys) |->
                 LET keyInfo == LastAdd(p).keys[i]
                 IN  IF keyInfo.isString THEN <<keyInfo.string>> ELSE <<keyInfo.key>>]
          \o [i \in 1..Len(LastAdd(p).messages) |-> <<LastAdd(p).messages[i]>>]

\* C17: the hash that bundle() computes is that of the file paths in sorted
\* order, each followed by its key strings and then its messages: the same for
\* the same set of files whatever the order they were added in
C17_HashOfSortedFiles ==
    bpc = "bundled" =>
      bundled.header.hash
        = Md5Digest(Flatten([i \in 1..Cardinality(AddedPaths) |-> FileData(PathsInOrder[i])]))

\* b is added before a: the hash is that of a and then b
C17_AddedInDescendingOrder ==
    /\ bpc = "bundled"
    /\ Len(adds) = 2
    /\ adds[1].filePath = <<"b">> /\ adds[1].messages = <<"A">>
    /\ adds[2].filePath = <<"a">> /\ adds[2].messages = <<"B">>
    /\ bundled.header.hash = Md5Digest(<< <<"a">>, <<"k2">>, <<"B">>, <<"b">>, <<"k1">>, <<"A">> >>)

\* ------------------------------------------------------------------------
\* The entities of XLIFF text (encodeEntities, decodeEntities)
\* ------------------------------------------------------------------------

\* most pieces a message is put together from
MaxPieces == 3

LtEntity == <<"&", "l", "t", ";">>

GtEntity == <<"&", "g", "t", ";">>

AmpEntity == <<"&", "a", "m", "p", ";">>

\* the case of the switch in encodeEntities for one character
EncodeChar(ch) ==
    CASE ch = "<" -> LtEntity
      [] ch = ">" -> GtEntity
      [] ch = "&" -> AmpEntity
      [] OTHER -> <<ch>>

\* the loop of encodeEntities and the join of its result
EncodeEntities(value) == Flatten([i \in 1..Len(value) |-> EncodeChar(value[i])])

\* value.replace(/pattern/g, replacement) for a pattern without special characters
RECURSIVE ReplaceAll(_, _, _)
ReplaceAll(value, pattern, replacement) ==
    IF Len(value) < Len(pattern) THEN value
    ELSE IF SubSeq(value, 1, Len(pattern)) = pattern
         THEN replacement \o ReplaceAll(SubSeq(value, Len(pattern) + 1, Len(value)),
                                        pattern, replacement)
         ELSE <<Head(value)>> \o ReplaceAll(Tail(value), pattern, replacement)

\* the three replacements with that of the ampersand first
DecodeEntities_AmpFirst(value) ==
    ReplaceAll(ReplaceAll(ReplaceAll(value, AmpEntity, <<"&">>), LtEntity, <<"<">>),
               GtEntity, <<">">>)

\* the three replacements of decodeEntities, in its order
DecodeEntities(value) ==
    ReplaceAll(ReplaceAll(ReplaceAll(value, LtEntity, <<"<">>), GtEntity, <<">">>),
               AmpEntity, <<"&">>)

\* what messages are put together from: the three characters, the three entities,
\* ends of entities and a letter
Pieces ==
    {<<"<">>, <<">">>, <<"&">>, LtEntity, GtEntity, AmpEntity,
     <<"l", "t", ";">>, <<"a", "m", "p", ";">>, <<"a">>}

EntityMessages == {Flatten(ps) : ps \in SeqsUpTo(Pieces, MaxPieces)}

EncodeEntities_call ==
    /\ lpc = "message"
    /\ output' = [encoded |-> EncodeEntities(input)]
    /\ lpc' = "encoded"
    /\ UNCHANGED input

DecodeEntities_call ==
    /\ lpc = "encoded"
    /\ output' = [encoded |-> output.encoded, decoded |-> DecodeEntities(output.encoded)]
    /\ lpc' = "decoded"
    /\ UNCHANGED input

EntitiesNext ==
    \/ EncodeEntities_call
    \/ DecodeEntities_call

InitEntities ==
    /\ TextIdle
    /\ FileIdle
    /\ BundlerIdle
    /\ input \in EntityMessages
    /\ output = <<>>
    /\ lpc = "message"

SpecEntities ==
    InitEntities /\ [][EntitiesNext /\ UNCHANGED <<textVars, fileVars, bundlerVars>>]_vars

MaxEdits == 2

\* "ab\ncd", "a\r\nb\nc" and "a\nb\nc"
EditTexts ==
    {<<"a", "b", "LF", "c", "d">>,
     <<"a", "CR", "LF", "b", "LF", "c">>,
     <<"a", "LF", "b", "LF", "c">>}

\* the patches over a set of positions whose content is empty or one character
EditsOver(positions) ==
    {NewPatch(se[1], se[2], c) :
       se \in {pq \in positions \X positions : NotAfter(pq[1], pq[2])}, c \in {<<>>, <<"x">>}}

InitEdits ==
    /\ FileIdle
    /\ CallIdle
    /\ BundlerIdle
    /\ contents \in EditTexts
    /\ rawSourceMap \in {NoMap, LineMappings(Len(SplitLines(contents)))}
    /\ patches \in SeqsUpTo(EditsOver(PositionsOf(contents)), MaxEdits)
    /\ TextStart

SpecEdits == InitEdits /\ [][TextNext /\ UNCHANGED <<fileVars, callVars, bundlerVars>>]_vars

\* ---- what replacing spans of a text gives ----
\* the length of the line break that starts at the i-th character, 0 if none does
BreakAt(str, i) ==
    IF str[i] = "CR" /\ i < Len(str) /\ str[i + 1] = "LF" THEN 2
    ELSE IF str[i] \in {"CR", "LF"} THEN 1 ELSE 0

\* the number of characters before the n-th line (zero based), counted from the
\* i-th character on
RECURSIVE CharsBeforeLine(_, _, _)
CharsBeforeLine(str, i, n) ==
    IF n = 0 \/ i > Len(str) THEN i - 1
    ELSE IF BreakAt(str, i) > 0 THEN CharsBeforeLine(str, i + BreakAt(str, i), n - 1)
    ELSE CharsBeforeLine(str, i + 1, n)

\* the number of characters of the text before a position
OffsetOf(str, pos) == CharsBeforeLine(str, 1, pos.line) + pos.character

\* the text with the span of one patch replaced by its content
ReplacedOne(str, contentsAtStart, p) ==
    SubSeq(str, 1, OffsetOf(contentsAtStart, p.span.start))
      \o p.content
      \o SubSeq(str, OffsetOf(contentsAtStart, p.span.end) + 1, Len(str))

\* the text with the spans of the patches replaced, the last span first so that
\* the offsets of the text as it was stay right
RECURSIVE ReplacedFrom(_, _, _)
ReplacedFrom(str, contentsAtStart, descending) ==
    IF descending = <<>> THEN str
    ELSE ReplacedFrom(ReplacedOne(str, contentsAtStart, Head(descending)),
                      contentsAtStart, Tail(descending))

Replaced(str, ps) == ReplacedFrom(str, str, Reverse(SortPatches(ps)))

\* toString has run after an apply that returned
Printed == tpc \in {"printed", "done"} /\ outcome = "none"

SingleLine(p) == p.span.start.line = p.span.end.line

\* C19: for non-overlapping single-line patches inside the text, in any order,
\* toString after apply is the original text with each span replaced by the
\* content of its patch; all outside the spans, every line ending included, is as
\* it was, also when a patch leaves the content of a line empty
C19_SpansReplaced ==
    (/\ Printed
     /\ patches # <<>>
     /\ \A i \in 1..Len(patches) : SingleLine(patches[i])
     /\ ~SomeTwoOverlap(patches)
     /\ AllInside(contents, patches))
      => text = Replaced(contents, patches)

\* the first line of "ab\ncd" is emptied: the line goes, and its ending with it
C19_EmptiedLineLosesEnding ==
    /\ Printed
    /\ contents = <<"a", "b", "LF", "c", "d">>
    /\ patches = <<NewPatch(Pos(0, 0), Pos(0, 2), <<>>)>>
    /\ text = <<"c", "d">>

\* C20: for a patch from a line to a later line inside the text, toString after
\* apply is the original text before the start of the span, the replacement, and
\* the original text from the end of the span on: the rest of the end line and
\* the ending of the end line
C20_MultiLineReplaced ==
    (/\ Printed
     /\ Len(patches) = 1
     /\ patches[1].span.start.line < patches[1].span.end.line
     /\ AllInside(contents, patches))
      => text = Replaced(contents, patches)

\* "ab\ncd" with a patch from the first line into the last: the joined line gets
\* the ending of the first line, which the last line does not have
C20_StartLineEndingKept ==
    /\ Printed
    /\ contents = <<"a", "b", "LF", "c", "d">>
    /\ patches = <<NewPatch(Pos(0, 1), Pos(1, 1), <<"x">>)>>
    /\ text = <<"a", "x", "d", "LF">>

\* ------------------------------------------------------------------------
\* Patches within a line, over lines that have mappings
\* ------------------------------------------------------------------------

\* "a\naaa"
CursorTexts == {<<"a", "LF", "a", "a", "a">>}

\* the positions of a text: each line, each character offset up to the end of its content
AllPositionsOf(str) ==
    {pos \in [line : 0..(Len(SplitLines(str)) - 1), character : 0..Len(str)] :
       pos.character <= Len(SplitLines(str)[pos.line + 1].content)}

\* input source maps: a mapping at every column of both lines, one on each line,
\* two on the second line only
CursorMaps ==
    {[present |-> TRUE,
      items |-> <<NewMapping(1, 0), NewMapping(1, 1), NewMapping(2, 0), NewMapping(2, 1),
                  NewMapping(2, 2), NewMapping(2, 3)>>],
     [present |-> TRUE, items |-> <<NewMapping(1, 0), NewMapping(2, 2)>>],
     [present |-> TRUE, items |-> <<NewMapping(2, 1), NewMapping(2, 3)>>]}

InitCursor ==
    /\ FileIdle
    /\ CallIdle
    /\ BundlerIdle
    /\ contents \in CursorTexts
    /\ rawSourceMap \in CursorMaps
    /\ patches \in SeqsUpTo({p \in PatchesOver(AllPositionsOf(contents)) :
                                p.span.start.line = p.span.end.line}, MaxPatches)
    /\ TextStart

SpecCursor == InitCursor /\ [][TextNext /\ UNCHANGED <<fileVars, callVars, bundlerVars>>]_vars

\* ------------------------------------------------------------------------
\* Properties of the mappings
\* ------------------------------------------------------------------------

\* apply has returned on a model that has a source map
Adopted == tpc \in {"applied", "printed", "done"} /\ rawSourceMap.present

\* generateSourceMap has returned a source map
Regenerated == tpc = "done" /\ rawSourceMap.present

AllSingleLine == \A i \in 1..Len(patches) : SingleLine(patches[i])

\* the net deltas of the patches on the line (zero based) that start before the column
RECURSIVE DeltasBefore(_, _, _)
DeltasBefore(ps, line, column) ==
    IF ps = <<>> THEN 0
    ELSE (IF Head(ps).span.start.line = line /\ Head(ps).span.start.character < column
          THEN Len(Head(ps).content)
                 - (Head(ps).span.end.character - Head(ps).span.start.character)
          ELSE 0)
         + DeltasBefore(Tail(ps), line, column)

\* what a mapping that was not deleted is emitted as after single-line patches
Shifted(m, ps) ==
    [source |-> m.source, name |-> m.name,
     originalLine |-> m.originalLine, originalColumn |-> m.originalColumn,
     generatedLine |-> m.generatedLine,
     generatedColumn |-> m.generatedColumn
                           + DeltasBefore(ps, m.generatedLine - 1, m.generatedColumn)]

\* the mappings of the lines that are not marked deleted, in the order of the lines
KeptMappings(ls) ==
    Flatten([i \in 1..Len(ls) |->
               IF ls[i].mappingsNull THEN <<>>
               ELSE SelectSeq(ls[i].mappings, LAMBDA m : ~m.delete)])

\* C21: in the source map regenerated after single-line patches every mapping not
\* marked deleted is emitted once, its source, name, original position and
\* generated line unchanged, its generated column raised by the net deltas of the
\* patches of its line that start before it; deleted mappings are not emitted
C21_ShiftedByDeltasBefore ==
    (Regenerated /\ AllSingleLine) =>
      sourceMapOut.mappings
        = [k \in 1..Len(KeptMappings(lines)) |-> Shifted(KeptMappings(lines)[k], patches)]

\* two insertions on the second line, at columns 0 and 2, with a mapping at every
\* column: the mapping at column 1 moves by one, the mapping at column 3 by two
C21_TwoPatchesBefore ==
    /\ Regenerated /\ AllSingleLine
    /\ Len(patches) = 2
    /\ patches[1].span.start = Pos(1, 2) /\ patches[1].span.end = Pos(1, 2)
    /\ patches[2].span.start = Pos(1, 0) /\ patches[2].span.end = Pos(1, 0)
    /\ Len(sourceMapOut.mappings) = 6
    /\ sourceMapOut.mappings[3].generatedColumn = 0
    /\ sourceMapOut.mappings[4].generatedColumn = 2
    /\ sourceMapOut.mappings[5].generatedColumn = 3
    /\ sourceMapOut.mappings[6].generatedColumn = 5

\* the column of a mapping lies strictly inside the span of a patch of its line
InsideSomeSpan(m, ps) ==
    \E i \in 1..Len(ps) :
        /\ ps[i].span.start.line = m.generatedLine - 1
        /\ ps[i].span.start.character < m.generatedColumn
        /\ m.generatedColumn < ps[i].span.end.character

\* C22: with single-line patches, in any number, a mapping is marked deleted
\* exactly when its generated column lies strictly inside the span of some patch
\* of its line
C22_DeletedIffInsideSpan ==
    (Adopted /\ outcome = "none" /\ AllSingleLine) =>
      \A i \in 1..Len(lines) :
        ~lines[i].mappingsNull =>
          \A k \in 1..Len(lines[i].mappings) :
            lines[i].mappings[k].delete <=> InsideSomeSpan(lines[i].mappings[k], patches)

\* three patches pass the overlap check although the third one lies inside the
\* second: the mapping at column 2 of the second line, inside the span of the
\* second patch, is left unmarked
C22_InsideSpanNotDeleted ==
    /\ Adopted /\ outcome = "none"
    /\ patches = <<NewPatch(Pos(0, 0), Pos(0, 0), <<"x">>),
                   NewPatch(Pos(1, 0), Pos(1, 3), <<"x">>),
                   NewPatch(Pos(1, 1), Pos(1, 2), <<"x">>)>>
    /\ rawSourceMap.items = <<NewMapping(1, 0), NewMapping(2, 2)>>
    /\ ~lines[2].mappings[1].delete

\* ------------------------------------------------------------------------
\* Patches over several lines, on a text of four lines with mappings
\* ------------------------------------------------------------------------

\* "aa\naaa\na\na"
LineTexts == {<<"a", "a", "LF", "a", "a", "a", "LF", "a", "LF", "a">>}

\* input source maps: mappings on every line; one behind the middle of the second
\* line and one on the last line; mappings on the first and the last line only
LineMaps ==
    {[present |-> TRUE,
      items |-> <<NewMapping(1, 0), NewMapping(1, 1), NewMapping(2, 0), NewMapping(2, 1),
                  NewMapping(2, 3), NewMapping(3, 0), NewMapping(4, 0), NewMapping(4, 1)>>],
     [present |-> TRUE, items |-> <<NewMapping(2, 3), NewMapping(4, 0)>>],
     [present |-> TRUE, items |-> <<NewMapping(1, 1), NewMapping(4, 0), NewMapping(4, 1)>>]}

InitLines ==
    /\ FileIdle
    /\ CallIdle
    /\ BundlerIdle
    /\ contents \in LineTexts
    /\ rawSourceMap \in LineMaps
    /\ patches \in SeqsUpTo(PatchesOver(AllPositionsOf(contents)), MaxEdits)
    /\ TextStart

SpecLines == InitLines /\ [][TextNext /\ UNCHANGED <<fileVars, callVars, bundlerVars>>]_vars

\* ---- the mappings after a patch over several lines ----
\* the patch of the set that runs over several lines, when there is one and the
\* others stay within a line
MultiLinePatch == CHOOSE i \in 1..Len(patches) : ~SingleLine(patches[i])

OneMultiLine ==
    /\ \E i \in 1..Len(patches) : ~SingleLine(patches[i])
    /\ \A i \in 1..Len(patches) : i # MultiLinePatch => SingleLine(patches[i])

\* the mappings of a line (zero based) after apply
MappingsOf(line) == IF lines[line + 1].mappingsNull THEN <<>> ELSE lines[line + 1].mappings

\* the patches other than the one over several lines
OtherPatches == SelectSeq(patches, SingleLine)

\* C23: for a patch from (s, sc) to (e, ec), s < e: the mappings of line s at or
\* after sc are deleted, all mappings of the lines between are deleted, the
\* mappings of line e before ec are deleted, and the first other mapping of line e
\* gets the line delta s - e and the column delta (sc - ec) + replacement length,
\* on top of the column delta a later patch on line e has recorded on it
C23_MultiLineMappings ==
    (Adopted /\ outcome = "none" /\ OneMultiLine) =>
      LET p == patches[MultiLinePatch]
          s == p.span.start.line
          e == p.span.end.line
          endLine == MappingsOf(e)
          first == CHOOSE k \in 1..Len(endLine) :
                       /\ endLine[k].generatedColumn >= p.span.end.character
                       /\ \A j \in 1..(k - 1) :
                             endLine[j].generatedColumn < p.span.end.character
      IN  /\ \A k \in 1..Len(MappingsOf(s)) :
                MappingsOf(s)[k].generatedColumn >= p.span.start.character
                  => MappingsOf(s)[k].delete
          /\ \A i \in (s + 1)..(e - 1) : \A k \in 1..Len(MappingsOf(i)) : MappingsOf(i)[k].delete
          /\ \A k \in 1..Len(endLine) :
                endLine[k].generatedColumn < p.span.end.character => endLine[k].delete
          /\ (\E k \in 1..Len(endLine) : endLine[k].generatedColumn >= p.span.end.character)
               => /\ endLine[first].lineDelta = s - e
                  /\ endLine[first].columnDelta
                       = (p.span.start.character - p.span.end.character) + Len(p.content)
                         + DeltasBefore(OtherPatches, e, endLine[first].generatedColumn)

\* a patch from the first line into the second and an insertion further on in the
\* second line: the mapping behind both has the deltas of the first patch only
C23_LaterDeltaOverwritten ==
    /\ Adopted /\ outcome = "none"
    /\ patches = <<NewPatch(Pos(0, 1), Pos(1, 1), <<"x">>),
                   NewPatch(Pos(1, 2), Pos(1, 2), <<"x">>)>>
    /\ rawSourceMap.items = <<NewMapping(2, 3), NewMapping(4, 0)>>
    /\ lines[2].mappings[1].lineDelta = -1
    /\ lines[2].mappings[1].columnDelta = 1

\* C24: after a patch that removes the lines s + 1 .. e, every mapping of a line
\* behind e that is not deleted is emitted with its generated line lowered by
\* e - s, whatever mappings line e has, also when none of them is left or it has
\* none
C24_LaterLinesMoveUp ==
    (Regenerated /\ Len(patches) = 1 /\ ~SingleLine(patches[1])) =>
      LET e == patches[1].span.end.line
          s == patches[1].span.start.line
          behind == Flatten([i \in 1..Len(lines) |->
                               IF i - 1 > e /\ ~lines[i].mappingsNull
                               THEN SelectSeq(lines[i].mappings, LAMBDA m : ~m.delete)
                               ELSE <<>>])
          emitted == SelectSeq(sourceMapOut.mappings, LAMBDA m : m.originalLine - 1 > e)
      IN  /\ Len(emitted) = Len(behind)
          /\ \A k \in 1..Len(behind) :
                /\ emitted[k].originalLine = behind[k].originalLine
                /\ emitted[k].originalColumn = behind[k].originalColumn
                /\ emitted[k].generatedLine = behind[k].generatedLine - (e - s)

\* a patch from the first line into the second, which has no mapping: the mappings
\* of the last line are emitted on the line they were on
C24_NoEndLineMapping ==
    /\ Regenerated
    /\ patches = <<NewPatch(Pos(0, 1), Pos(1, 1), <<"x">>)>>
    /\ rawSourceMap.items = <<NewMapping(1, 1), NewMapping(4, 0), NewMapping(4, 1)>>
    /\ Len(sourceMapOut.mappings) = 3
    /\ sourceMapOut.mappings[2].generatedLine = 4
    /\ sourceMapOut.mappings[3].generatedLine = 4

\* ------------------------------------------------------------------------
\* References of a variable a load call is bound to
\* ------------------------------------------------------------------------

\* the references of the variables the load calls are bound to that are no write
\* access, load call by load call
RECURSIVE BoundReferencesLoop(_)
BoundReferencesLoop(loadCalls) ==
    IF loadCalls = <<>> THEN <<>>
    ELSE SelectSeq(Head(loadCalls).references, LAMBDA r : ~r.isWriteAccess)
         \o BoundReferencesLoop(Tail(loadCalls))

BoundReferences == BoundReferencesLoop(LoadCalls(passed))

\* the reference is what is called, with two arguments or more
CalledAsLocalize(r) == r.parentIsCall /\ r.isCallee /\ Len(r.call.arguments) >= 2

\* the errors that tell that the reference is used in an unusual way
UnusualErrors(r) ==
    {k \in 1..Len(analysis.errors) :
       /\ analysis.errors[k].message = "unusual"
       /\ analysis.errors[k].name = r.text
       /\ analysis.errors[k].line = r.pos.line + 1
       /\ analysis.errors[k].character = r.pos.character + 1}

\* the patches on the line of the reference
PatchesOnLineOf(r) ==
    {k \in 1..Len(analysis.patches) : analysis.patches[k].span.start.line = r.pos.line}

IsSite(call) == \E i \in 1..Len(Sites) : Sites[i] = call

\* C25: whenever analyze returns, a reference of a bound variable that is no write
\* access is taken for a localize call only if it is the callee of a call with two
\* arguments or more; every other reference gets exactly one error that names the
\* variable and the position, is not among the localize calls, and nothing on its
\* line is patched
C25_OnlyCalleesAreCalls ==
    Returned =>
      \A i \in 1..Len(BoundReferences) :
        LET r == BoundReferences[i]
        IN IF CalledAsLocalize(r)
           THEN IsSite(r.call) /\ UnusualErrors(r) = {}
           ELSE /\ Cardinality(UnusualErrors(r)) = 1
                /\ ~IsSite(r.call)
                /\ PatchesOnLineOf(r) = {}

\* C25, the failing case: the variable is the third argument of another call, x('k',
\* 'm', l), no error is reported for it, and the first two arguments of that call
\* are rewritten to an index and null in the contents that are returned
C25_ArgumentTakenForCall ==
    /\ Returned
    /\ result.thrown = "none"
    /\ result.contents.defined
    /\ \E i \in 1..Len(BoundReferences) :
         LET r == BoundReferences[i]
         IN /\ r.parentIsCall
            /\ ~r.isCallee
            /\ Len(r.call.arguments) = 3
            /\ UnusualErrors(r) = {}
            /\ IsSite(r.call)
            /\ \E k \in PatchesOnLineOf(r), m \in PatchesOnLineOf(r) :
                 /\ analysis.patches[k].span.start = r.call.arguments[1].start
                 /\ analysis.patches[k].content = Decimal(Len(analysis.messages) - 1)
                 /\ analysis.patches[m].span.start = r.call.arguments[2].start
                 /\ analysis.patches[m].content = <<"null">>

\* the entry asTranslatedMessages gives for the key at index i, by position: the
\* translation of that key, and without one the message at index i of the bundle
\* that was resolved
ByPosition(bundle, resolved, translatedMessages, i) ==
    IF HasTranslation(translatedMessages, resolved.keys[i])
    THEN TranslationOf(translatedMessages, resolved.keys[i])
    ELSE bundle.messages[i]

MaxArgs == 2

MaxMatches == 2

\* a matched file: whether processFile reports errors for it, and whether its source
\* map URL has a protocol or a host
MatchedFiles == [errors : BOOLEAN, remote : BOOLEAN]

\* an element of argv._: a number, or a pattern for which glob fails or gives matches
ArgvElements ==
    {[isNumber |-> TRUE, err |-> FALSE, matches |-> <<>>],
     [isNumber |-> FALSE, err |-> TRUE, matches |-> <<>>]}
    \cup {[isNumber |-> FALSE, err |-> FALSE, matches |-> m] :
            m \in SeqsUpTo(MatchedFiles, MaxMatches)}

\* matches.forEach: hasError after the files from the i-th on
RECURSIVE MatchesLoop(_, _, _)
MatchesLoop(matches, i, hasError) ==
    IF i > Len(matches) THEN hasError
    ELSE MatchesLoop(matches, i + 1, hasError \/ matches[i].remote \/ matches[i].errors)

\* the callback of glob: an error sets hasError and ends it, else the files are
\* processed one after the other
GlobCallbackOf(element, hasError) ==
    IF element.err THEN TRUE ELSE MatchesLoop(element.matches, 1, hasError)

\* argv._.forEach, one element: a number is skipped, a pattern is handed to glob
Vscl_forEach ==
    /\ lpc = "script"
    /\ output.next <= Len(input.argv)
    /\ output' = [output EXCEPT
                    !.next = @ + 1,
                    !.pending = IF input.argv[output.next].isNumber THEN @
                                ELSE @ \cup {output.next}]
    /\ UNCHANGED <<input, lpc>>

\* if (hasError) process.exit(1), at the end of the script
Vscl_check ==
    /\ lpc = "script"
    /\ output.next > Len(input.argv)
    /\ IF output.hasError
       THEN lpc' = "exited" /\ output' = [output EXCEPT !.status = 1]
       ELSE lpc' = "loop" /\ UNCHANGED output
    /\ UNCHANGED input

\* a callback of glob, once the script has ended, in whatever order the globs end
Vscl_globCallback ==
    /\ lpc = "loop"
    /\ \E i \in output.pending :
         output' = [output EXCEPT
                      !.pending = @ \ {i},
                      !.hasError = GlobCallbackOf(input.argv[i], @)]
    /\ UNCHANGED <<input, lpc>>

\* nothing is left to run: the process ends with status 0
Vscl_end ==
    /\ lpc = "loop"
    /\ output.pending = {}
    /\ output' = [output EXCEPT !.status = 0]
    /\ lpc' = "exited"
    /\ UNCHANGED input

VsclNext ==
    \/ Vscl_forEach
    \/ Vscl_check
    \/ Vscl_globCallback
    \/ Vscl_end

InitVscl ==
    /\ TextIdle
    /\ FileIdle
    /\ BundlerIdle
    /\ \E argv \in SeqsUpTo(ArgvElements, MaxArgs) : input = [argv |-> argv]
    /\ output = [hasError |-> FALSE, next |-> 1, pending |-> {}, status |-> 0]
    /\ lpc = "script"

SpecVscl == InitVscl /\ [][VsclNext /\ UNCHANGED <<textVars, fileVars, bundlerVars>>]_vars

\* glob failed for a pattern, or a matched file gave errors
SomeFailure ==
    \E i \in 1..Len(input.argv) :
      \/ input.argv[i].err
      \/ \E j \in 1..Len(input.argv[i].matches) : input.argv[i].matches[j].errors

\* C27: the process ends with status 1 whenever glob failed or a matched file gave
\* errors
C27_FailureExitsWithOne ==
    lpc = "exited" /\ input.argv # <<>> /\ SomeFailure => output.status = 1

\* C27, the failing case: hasError was set by a callback of glob after the script had
\* read it, and the process ended with status 0
C27_ReadBeforeSet ==
    /\ lpc = "exited"
    /\ SomeFailure
    /\ output.hasError
    /\ output.status = 0

\* ------------------------------------------------------------------------
\* main.ts rewriteLocalizeCalls: the stream
\*
\* input.files are the files written to the stream, in their order; output.next is
\* the index of the file to be written next, output.events what the stream has
\* emitted: a file queued is a "data" event, emit('error', ...) an "error" event
\* and queue(null) the "end" event.  An exception out of the write function ends
\* the run of the stream (lpc = "thrown").
\* ------------------------------------------------------------------------

MaxFiles == 3

NLS_JSON == <<".nls.json">>

NLS_METADATA_JSON == <<".nls.metadata.json">>

\* the statements of the files written to the stream: none; a bound load call and a
\* call of the variable; the same with a first argument that is no literal; a load
\* call that is called in place without arguments
StreamRows ==
    {<<>>,
     <<Row("load", 0, TRUE, "absent", "absent"), Row("use", 0, FALSE, "str", "str")>>,
     <<Row("load", 0, TRUE, "absent", "absent"), Row("use", 0, FALSE, "other", "str")>>,
     <<Row("inline", 0, FALSE, "absent", "absent")>>}

\* a vinyl file: whether its contents are a buffer, its source, base and path
StreamFiles ==
    {[isBuffer |-> b,
      source |-> SourceFile(rows, <<"a.js">>, sourceMap),
      base |-> <<"src">>,
      path |-> <<"src", "/", "a", ".js">>] :
        b \in BOOLEAN, rows \in StreamRows,
        sourceMap \in {NoSourceMap, [kind |-> "object", items |-> LineMappings(1).items]}}

\* file.path.substr(0, file.path.length - ext.length), ext the extension of the path
WithoutExtension(path) == SubSeq(path, 1, Len(path) - 1)

\* removePathPrefix(path, prefix)
RemovePathPrefix(path, prefix) ==
    IF prefix = <<>> THEN path
    ELSE IF Len(path) < Len(prefix) \/ SubSeq(path, 1, Len(prefix)) # prefix THEN path
    ELSE IF prefix[Len(prefix)] \in {"/", "\\"}
         THEN SubSeq(path, Len(prefix) + 1, Len(path))
         ELSE SubSeq(path, Len(prefix) + 2, Len(path))

Data(from, path, body, sourceMap) ==
    [event |-> "data", from |-> from, path |-> path, contents |-> body,
     sourceMap |-> sourceMap]

ErrorEvent(from, message) ==
    [event |-> "error", from |-> from, path |-> <<>>, contents |-> <<message>>,
     sourceMap |-> Undefined]

EndEvent ==
    [event |-> "end", from |-> 0, path |-> <<>>, contents |-> <<>>, sourceMap |-> Undefined]

\* the messages file of a result with a bundle
MessagesFile(i, f, r) ==
    Data(i, WithoutExtension(f.path) \o NLS_JSON, r.bundle.value.messages, Undefined)

\* the metadata file of a result with a bundle: the bundle and the file path
MetaDataFile(i, f, r) ==
    Data(i, WithoutExtension(f.path) \o NLS_METADATA_JSON,
         [messages |-> r.bundle.value.messages, keys |-> r.bundle.value.keys,
          filePath |-> RemovePathPrefix(WithoutExtension(f.path), f.base)],
         Undefined)

\* the write function of rewriteLocalizeCalls for the i-th file: what it emits, and
\* what it throws
RewriteWrite(i, f) ==
    IF ~f.isBuffer
    THEN [thrown |-> "none", events |-> <<ErrorEvent(i, "Failed to read file")>>]
    ELSE LET r == ProcessFile(Passed(f.source, NoName, f.source.sourceMap))
         IN IF r.thrown # "none" THEN [thrown |-> r.thrown, events |-> <<>>]
            ELSE IF HasErrors(r)
            THEN [thrown |-> "none", events |-> <<ErrorEvent(i, "Failed to rewrite file")>>]
            ELSE [thrown |-> "none",
                  events |->
                    <<Data(i, f.path,
                           IF HasContents(r) THEN r.contents.value ELSE f.source.contents,
                           IF HasSourceMap(r) THEN r.sourceMap
                           ELSE Defined(f.source.sourceMap))>>
                    \o (IF r.bundle.defined THEN <<MessagesFile(i, f, r)>> ELSE <<>>)
                    \o (IF r.bundle.defined THEN <<MetaDataFile(i, f, r)>> ELSE <<>>)]

\* a file is written to the stream
RewriteLocalizeCalls_write ==
    /\ lpc = "stream"
    /\ output.next <= Len(input.files)
    /\ LET w == RewriteWrite(output.next, input.files[output.next])
       IN /\ output' = [output EXCEPT !.next = @ + 1, !.events = @ \o w.events]
          /\ lpc' = IF w.thrown # "none" THEN "thrown" ELSE "stream"
    /\ UNCHANGED input

\* the stream is ended after the last file: through queues null
RewriteLocalizeCalls_end ==
    /\ lpc = "stream"
    /\ output.next > Len(input.files)
    /\ output' = [output EXCEPT !.events = Append(@, EndEvent)]
    /\ lpc' = "ended"
    /\ UNCHANGED input

RewriteNext ==
    \/ RewriteLocalizeCalls_write
    \/ RewriteLocalizeCalls_end

InitRewrite ==
    /\ TextIdle
    /\ FileIdle
    /\ BundlerIdle
    /\ \E files \in SeqsUpTo(StreamFiles, MaxFiles) : input = [files |-> files]
    /\ output = [next |-> 1, events |-> <<>>]
    /\ lpc = "stream"

SpecRewrite ==
    InitRewrite /\ [][RewriteNext /\ UNCHANGED <<textVars, fileVars, bundlerVars>>]_vars

\* what processFile gives for a file of the stream
StreamResult(f) == ProcessFile(Passed(f.source, NoName, f.source.sourceMap))

\* a file of the stream that is processed without errors
WithoutErrors(f) ==
    f.isBuffer /\ StreamResult(f).thrown = "none" /\ Len(StreamResult(f).errors) = 0

\* of an event: what it is, the file it comes from and, for a file, its extension
KindOf(e) == <<e.event, e.from, IF e.event = "data" THEN e.path[Len(e.path)] ELSE "">>

\* the events that are due for the i-th file
DueFor(i) ==
    LET f == input.files[i]
    IN IF WithoutErrors(f)
       THEN <<<<"data", i, ".js">>>>
            \o (IF StreamResult(f).bundle.defined
                THEN <<<<"data", i, ".nls.json">>, <<"data", i, ".nls.metadata.json">>>>
                ELSE <<>>)
       ELSE <<<<"error", i, "">>>>

\* the events of the stream that come from files
FileEvents == SelectSeq(output.events, LAMBDA e : e.event # "end")

\* C28: at any time the events of rewriteLocalizeCalls are, file by file in the order
\* of the input, for a buffer file processed without errors the file itself, with the
\* rewritten contents if there are any, followed when there is a bundle by its
\* .nls.json and then its .nls.metadata.json file, each once, and for a file with
\* errors or a file that is no buffer one error event and no file
C28_EventsFileByFile ==
    lpc \in {"stream", "thrown", "ended"} /\ "files" \in DOMAIN input =>
      /\ [k \in 1..Len(FileEvents) |-> KindOf(FileEvents[k])]
           = Flatten([i \in 1..(output.next - 1) |-> DueFor(i)])
      /\ \A k \in 1..Len(FileEvents) :
           LET e == FileEvents[k]
               f == input.files[e.from]
           IN e.event = "data" /\ e.path = f.path =>
                e.contents = IF StreamResult(f).contents.defined
                             THEN StreamResult(f).contents.value
                             ELSE f.source.contents

\* C28, the failing case: processFile has thrown on a buffer file, the second of the
\* stream, and the stream has emitted nothing for it, neither a file nor an error
C28_NothingForThrowingFile ==
    /\ lpc = "thrown"
    /\ "files" \in DOMAIN input
    /\ output.next = 3
    /\ input.files[2].isBuffer
    /\ StreamResult(input.files[2]).thrown = "TypeError"
    /\ \A k \in 1..Len(output.events) : output.events[k].from = 1
    /\ Len(output.events) = 3

\* ------------------------------------------------------------------------
\* main.ts bundleMetaDataFiles: the stream
\*
\* input.files are the files written to the stream, output.events what it has
\* emitted, output.base and output.bundler the variables base and content of the
\* closure.  A file has the base name of its relative path, and for a buffer the
\* JSON text it holds: json.parses tells whether JSON.parse accepts it.
\* ------------------------------------------------------------------------

\* the base names: of files that are no metadata files, and of metadata files
OtherNames == {<<"a", ".js">>, <<"a", ".nls.json">>}

MetaDataNames == {<<"a">> \o NLS_METADATA_JSON, NLS_METADATA_JSON}

NoJson == [parses |-> FALSE, value |-> <<>>]

\* the metadata a file holds: two files for one path, written with either slash,
\* and a file for another path
BundledFiles ==
    {[messages |-> <<"A">>, keys |-> <<StringKey("k1")>>, filePath |-> <<"d", "/", "a">>],
     [messages |-> <<"B">>, keys |-> <<LocalizeInfo("k2", <<"c">>)>>,
      filePath |-> <<"d", "\\", "a">>],
     [messages |-> <<>>, keys |-> <<>>, filePath |-> <<"b">>]}

\* the files written to the stream: other files, metadata files that hold metadata,
\* one that holds no JSON text and one that is no buffer
BundleStreamFiles ==
    {[isBuffer |-> TRUE, basename |-> n, base |-> <<"src">>, json |-> NoJson] :
        n \in OtherNames}
    \cup {[isBuffer |-> TRUE, basename |-> <<"a">> \o NLS_METADATA_JSON, base |-> <<"src">>,
           json |-> [parses |-> TRUE, value |-> j]] : j \in BundledFiles}
    \cup {[isBuffer |-> b, basename |-> n, base |-> <<"src">>, json |-> NoJson] :
            b \in BOOLEAN, n \in MetaDataNames}

\* NLS_METADATA_JSON === basename.substr(basename.length - NLS_METADATA_JSON.length)
EndsWithMetaData(basename) ==
    /\ Len(basename) >= Len(NLS_METADATA_JSON)
    /\ SubSeq(basename, Len(basename) - Len(NLS_METADATA_JSON) + 1, Len(basename))
         = NLS_METADATA_JSON

\* the write function of bundleMetaDataFiles for the i-th file, in the state st of
\* the closure: base, bundler, what is emitted and what is thrown
BundleWrite(st, i, f) ==
    IF ~EndsWithMetaData(f.basename)
    THEN [base |-> st.base, bundler |-> st.bundler, thrown |-> "none",
          events |-> <<Data(i, f.basename, f.json, Undefined)>>]
    ELSE IF ~f.isBuffer
    THEN [base |-> st.base, bundler |-> st.bundler, thrown |-> "none",
          events |-> <<ErrorEvent(i, "Failed to bundle file")>>]
    ELSE LET base == IF st.base.defined THEN st.base ELSE Defined(f.base)
         IN IF ~f.json.parses
            THEN [base |-> base, bundler |-> st.bundler, thrown |-> "SyntaxError",
                  events |-> <<>>]
            ELSE [base |-> base, bundler |-> BundlerAdd(st.bundler, f.json.value),
                  thrown |-> "none", events |-> <<>>]

\* the end function with the two files queued whether or not base is set
BundleEnd_Always(st) ==
    LET bundle == BundlerBundle(st.bundler)
    IN <<Data(0, st.base.value \o <<"/", "nls.metadata.header.json">>, bundle.header,
               Undefined),
           Data(0, st.base.value \o <<"/", "nls.metadata.json">>, bundle.content,
                Undefined)>>
       \o <<EndEvent>>

\* the end function: with base set the header file and the bundle, then null
BundleEnd(st) ==
    LET bundle == BundlerBundle(st.bundler)
    IN (IF st.base.defined /\ st.base.value # <<>>
        THEN <<Data(0, st.base.value \o <<"/", "nls.metadata.header.json">>, bundle.header,
                    Undefined),
               Data(0, st.base.value \o <<"/", "nls.metadata.json">>, bundle.content,
                    Undefined)>>
        ELSE <<>>)
       \o <<EndEvent>>

\* a file is written to the stream
BundleMetaDataFiles_write ==
    /\ lpc = "stream"
    /\ output.next <= Len(input.files)
    /\ LET w == BundleWrite(output, output.next, input.files[output.next])
       IN /\ output' = [next |-> output.next + 1, events |-> output.events \o w.events,
                        base |-> w.base, bundler |-> w.bundler]
          /\ lpc' = IF w.thrown # "none" THEN "thrown" ELSE "stream"
    /\ UNCHANGED input

\* the stream is ended after the last file
BundleMetaDataFiles_end ==
    /\ lpc = "stream"
    /\ output.next > Len(input.files)
    /\ output' = [output EXCEPT !.events = @ \o BundleEnd(output)]
    /\ lpc' = "ended"
    /\ UNCHANGED input

BundleStreamNext ==
    \/ BundleMetaDataFiles_write
    \/ BundleMetaDataFiles_end

\* bundleMetaDataFiles(id, outDir)
InitBundleStream ==
    /\ TextIdle
    /\ FileIdle
    /\ BundlerIdle
    /\ \E files \in SeqsUpTo(BundleStreamFiles, MaxFiles) : input = [files |-> files]
    /\ output = [next |-> 1, events |-> <<>>, base |-> Undefined,
                 bundler |-> [id |-> "ext", outDir |-> "out", content |-> <<>>]]
    /\ lpc = "stream"

SpecBundleStream ==
    InitBundleStream
      /\ [][BundleStreamNext /\ UNCHANGED <<textVars, fileVars, bundlerVars>>]_vars

\* the indices of the files written so far that are metadata files, and that are not
IsMetaDataFile(f) == f.basename[Len(f.basename)] = ".nls.metadata.json"

Written == 1..(output.next - 1)

\* the metadata files written so far that were read: the buffers
Consumed == {i \in Written : IsMetaDataFile(input.files[i]) /\ input.files[i].isBuffer}

\* the indices in ascending order of the files written so far that are no metadata
\* files
RECURSIVE OthersFrom(_)
OthersFrom(i) ==
    IF i > output.next - 1 THEN <<>>
    ELSE (IF IsMetaDataFile(input.files[i]) THEN <<>> ELSE <<i>>) \o OthersFrom(i + 1)

\* the files the stream has passed on, and what it has emitted of its own
PassedOn == SelectSeq(output.events, LAMBDA e : e.event = "data" /\ e.from > 0)

OfItsOwn == SelectSeq(output.events, LAMBDA e : e.event # "error" /\ e.from = 0)

\* the key an entry of the bundle has for a file path
EntryKey(filePath) == [i \in 1..Len(filePath) |-> IF filePath[i] = "\\" THEN "/" ELSE filePath[i]]

\* C29: bundleMetaDataFiles passes on the files that are no metadata files, each once,
\* unchanged and in the order of their arrival, and never a metadata file; when it
\* is ended it emits nls.metadata.header.json and then nls.metadata.json, once each,
\* if and only if it has read a metadata file, the latter with an entry for the path
\* of every metadata file read, and then the end of the stream, once
C29_PassedOnAndBundled ==
    lpc \in {"stream", "thrown", "ended"} /\ "files" \in DOMAIN input =>
      /\ [k \in 1..Len(PassedOn) |-> PassedOn[k].from] = OthersFrom(1)
      /\ \A k \in 1..Len(PassedOn) :
           /\ PassedOn[k].path = input.files[PassedOn[k].from].basename
           /\ PassedOn[k].contents = input.files[PassedOn[k].from].json
      /\ lpc # "ended" => OfItsOwn = <<>>
      /\ lpc = "ended" =>
           /\ output.events[Len(output.events)].event = "end"
           /\ Len(SelectSeq(output.events, LAMBDA e : e.event = "end")) = 1
           /\ IF Consumed # {}
              THEN /\ Len(OfItsOwn) = 3
                   /\ SubSeq(output.events, Len(output.events) - 2, Len(output.events))
                        = OfItsOwn
                   /\ OfItsOwn[1].path[Len(OfItsOwn[1].path)] = "nls.metadata.header.json"
                   /\ OfItsOwn[2].path[Len(OfItsOwn[2].path)] = "nls.metadata.json"
                   /\ \A i \in Consumed :
                        \E k \in 1..Len(OfItsOwn[2].contents) :
                          OfItsOwn[2].contents[k].key
                            = EntryKey(input.files[i].json.value.filePath)
                   /\ \A k \in 1..Len(OfItsOwn[2].contents) :
                        \E i \in Consumed :
                          OfItsOwn[2].contents[k].key
                            = EntryKey(input.files[i].json.value.filePath)
              ELSE Len(OfItsOwn) = 1

\* a file, a metadata file, a file: the stream has passed on the first and the third,
\* and ended with the header, the bundle with one entry, and the end
C29_BundledAfterOthers ==
    /\ lpc = "ended"
    /\ "files" \in DOMAIN input
    /\ Len(input.files) = 3
    /\ ~IsMetaDataFile(input.files[1])
    /\ Consumed = {2}
    /\ ~IsMetaDataFile(input.files[3])
    /\ Len(output.events) = 5
    /\ output.events[1].from = 1
    /\ output.events[2].from = 3
    /\ output.events[3].path = <<"src", "/", "nls.metadata.header.json">>
    /\ output.events[4].path = <<"src", "/", "nls.metadata.json">>
    /\ Len(output.events[4].contents) = 1
    /\ output.events[5].event = "end"

\* ------------------------------------------------------------------------
\* The calls of the webpack loader
\* ------------------------------------------------------------------------

\* the loader has been run on the file
Loaded == fpc = "done" /\ out.caller = "webpack-loader"

\* C30: the webpack loader calls its callback exactly once in every run: with an
\* Error and without emitFile when processFile reports errors, with the content and
\* the map that came in when there are no rewritten contents, with the rewritten
\* contents and the source map of the result otherwise; and it calls emitFile, for
\* <base>.nls.metadata.json, only when there are no errors and there is a bundle
C30_CallbackOnce ==
    Loaded =>
      /\ Len(out.callbacks) = 1
      /\ IF Len(result.errors) > 0
         THEN /\ out.callbacks[1].error = Defined(result.errors)
              /\ out.emitFiles = <<>>
         ELSE IF ~result.contents.defined
         THEN /\ ~out.callbacks[1].error.defined
              /\ out.callbacks[1].content = passed.contents
              /\ out.callbacks[1].map = file.sourceMap
         ELSE /\ ~out.callbacks[1].error.defined
              /\ out.callbacks[1].content = result.contents.value
              /\ out.callbacks[1].regenerated = result.sourceMap
      /\ out.emitFiles # <<>> <=> Len(result.errors) = 0 /\ result.bundle.defined
      /\ \A k \in 1..Len(out.emitFiles) :
           /\ k = 1
           /\ out.emitFiles[k].name[Len(out.emitFiles[k].name)] = ".nls.metadata.json"

\* C30, the failing case: processFile has thrown in the loader, and the callback has
\* not been called
C30_ThrownBeforeCallback ==
    /\ Loaded
    /\ result.thrown = "TypeError"
    /\ out.thrown = "TypeError"
    /\ out.callbacks = <<>>
    /\ out.emitFiles = <<>>

====
